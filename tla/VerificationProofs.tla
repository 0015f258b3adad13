------------------------- MODULE VerificationProofs -------------------------
(***************************************************************************)
(* That a verdict fails closed: for every policy, every finding of the     *)
(* tools, every order of their events and everything the bus may lose, an  *)
(* overall pass was earned.                                                *)
(***************************************************************************)
EXTENDS Verification, TLAPS

Events == [kind : ReducerKinds, from : Procs, value : Signal, changed : Nat]

\* What an event of each kind says of the world when it reports nothing bad.
Sound(e, w) ==
    /\ e.kind = "verify.lint" /\ e.value.errors = 0 /\ e.value.warnings = 0 =>
           w.lint = "clean" \/ w.security = "clean"
    /\ e.kind = "verify.security" /\ e.value.critical = 0 /\ e.value.high = 0 =>
           \E p \in {"lint", "security"} : Found(p, w) \in {"clean", "warnings", "errors"}
    /\ e.kind = "verify.types" /\ e.value.errors = 0 /\ e.value.status # "skipped" =>
           w.types = "clean" \/ TakenForClean(w)
    /\ e.kind = "state.graph" /\ e.value.broken = 0 /\ e.value.status # "skipped" =>
           w.graph = "clean"
    /\ e.kind = "state.changes" /\ e.changed # 0 => w.changes = "some"
    /\ e.from = "finalize" /\ e.kind \notin ArtifactKinds =>
           e.kind = "verify.types" /\ e.value.errors = 1

\* A sequence of sound events, one that has an event of a kind, and one of
\* events that finalizeDelegation itself emits.
SoundSeq(s, w) == s \in Seq(Events) /\ \A i \in 1..Len(s) : Sound(s[i], w)
Has(s, kind)   == \E i \in 1..Len(s) : s[i].kind = kind
Own(s)         == \A i \in 1..Len(s) : s[i].from = "finalize"

\* The signals of the delegation that are not stored yet are still to come.
AllStored == \A kind \in world.artifacts : perTask[kind] # << >>
StillToCome ==
    \A kind \in world.artifacts : perTask[kind] # << >> \/ Has(pending["finalize"], kind)

\* As long as the bus has not been full, what a verifier could emit came after
\* all of the delegation's own signals.
OrderOK ==
    /\ bus = "full" => overflowed
    /\ phase \in {"finalize", "reduced"} => \A p \in Emitters : pending[p] = << >>
    /\ phase # "finalize" => pending["finalize"] = << >>
    /\ \A p \in Emitters : \A i \in 1..Len(pending[p]) : pending[p][i].from # "finalize"
    /\ Own(pending["finalize"])
    /\ ~overflowed /\ bus = "open" =>
           IF phase = "finalize" THEN StillToCome ELSE AllStored
    /\ ~overflowed =>
           \A kind \in ReducerKinds : \A i \in 1..Len(perTask[kind]) :
               perTask[kind][i].from # "finalize" => phase # "finalize" /\ AllStored

\* What the packet was made of.
PacketOK ==
    phase = "reduced" =>
        packet = FinalizePacket(Reduce(SlotSignals, ArtifactSignals, world.policy),
                                ArtifactSignals, world.mode)

Inv ==
    /\ world \in Worlds
    /\ bus \in {"open", "full", "down"}
    /\ perTask \in [ReducerKinds -> Seq(Events)]
    /\ \A kind \in ReducerKinds : \A i \in 1..Len(perTask[kind]) :
           perTask[kind][i].kind = kind /\ Sound(perTask[kind][i], world)
    /\ DOMAIN pending = Procs
    /\ \A p \in Procs : SoundSeq(pending[p], world)
    /\ phase \in {"finalize", "verifying", "reduced"}
    /\ packet \in Packet
    /\ overflowed \in BOOLEAN
    /\ OrderOK
    /\ PacketOK

USE WorldAssumption
-----------------------------------------------------------------------------
(* What the tools put on the bus *)

\* The fields of a signal that reports nothing but its status.
LEMMA PlainFields ==
    ASSUME NEW status \in Statuses
    PROVE  /\ Plain(status) \in Signal /\ Plain(status).status = status
           /\ Plain(status).errors = 0 /\ Plain(status).warnings = 0
           /\ Plain(status).critical = 0 /\ Plain(status).high = 0 /\ Plain(status).broken = 0
BY DEF Plain, Signal

\* The fields of an event.
LEMMA EventFields ==
    ASSUME NEW kind \in ReducerKinds, NEW from \in Procs, NEW value \in Signal, NEW changed \in Nat
    PROVE  /\ Event(kind, from, value, changed) \in Events
           /\ Event(kind, from, value, changed).kind = kind
           /\ Event(kind, from, value, changed).from = from
           /\ Event(kind, from, value, changed).value = value
           /\ Event(kind, from, value, changed).changed = changed
BY DEF Event, Events

\* Every kind by name.
LEMMA KindNames ==
    ReducerKinds = {"state.graph", "verify.lint", "verify.types", "verify.security",
                    "verify.imports", "artifact.blocked", "artifact.unterminated",
                    "artifact.truncated", "artifact.emitted", "state.changes"}
BY DEF ReducerKinds, ArtifactKinds, SlotKind, Slots

\* A sequence of one event.
LEMMA SingleSound ==
    ASSUME NEW w, NEW e \in Events, Sound(e, w)
    PROVE  SoundSeq(<<e>>, w) /\ Len(<<e>>) = 1 /\ <<e>>[1] = e
BY DEF SoundSeq

\* The lint engine.
LEMMA LintSound ==
    ASSUME NEW w \in World, NEW p \in {"lint", "security"}
    PROVE  /\ SoundSeq(LintEvents(p, w), w)
           /\ \A i \in 1..Len(LintEvents(p, w)) : LintEvents(p, w)[i].from # "finalize"
<1> DEFINE found  == Found(p, w)
           from   == IF w.tie THEN "lint" ELSE p
           Status(bad) == IF found = "crash" THEN "error" ELSE IF bad THEN "fail" ELSE "pass"
           unsafe == found \in {"high", "critical"}
           lint   == [Plain(Status(unsafe \/ found = "errors")) EXCEPT
                         !.errors = IF found \in {"clean", "warnings"} THEN 0 ELSE 1,
                         !.warnings = IF found = "warnings" THEN 1 ELSE 0]
           sec    == [Plain(Status(unsafe)) EXCEPT
                         !.critical = IF found \in {"critical", "crash"} THEN 1 ELSE 0,
                         !.high = IF found = "high" THEN 1 ELSE 0]
           a      == Event("verify.lint", from, lint, 0)
           b      == Event("verify.security", from, sec, 0)
<1>1. LintEvents(p, w) = <<a, b>>
  BY DEF LintEvents
<1>2. found \in LintOutcomes /\ (found = w.lint \/ found = w.security)
  BY DEF Found, World
<1>3. \A bad \in BOOLEAN : Status(bad) \in Statuses
  BY DEF Statuses
<1>4. Plain(Status(unsafe \/ found = "errors")) \in Signal /\ Plain(Status(unsafe)) \in Signal
  BY <1>3, PlainFields
<1>5. /\ lint \in Signal
      /\ lint.errors = IF found \in {"clean", "warnings"} THEN 0 ELSE 1
      /\ lint.warnings = IF found = "warnings" THEN 1 ELSE 0
  BY <1>4 DEF Signal
<1>6. /\ sec \in Signal
      /\ sec.critical = IF found \in {"critical", "crash"} THEN 1 ELSE 0
      /\ sec.high = IF found = "high" THEN 1 ELSE 0
  BY <1>4 DEF Signal
<1>7. from \in Procs /\ from # "finalize"
  BY DEF Procs, Emitters
<1> HIDE DEF lint, sec, from
<1>8. /\ a \in Events /\ a.kind = "verify.lint" /\ a.from = from /\ a.value = lint
      /\ b \in Events /\ b.kind = "verify.security" /\ b.from = from /\ b.value = sec
  BY <1>5, <1>6, <1>7, KindNames, EventFields
<1> HIDE DEF a, b
<1>9. Sound(a, w)
  BY <1>2, <1>5, <1>7, <1>8 DEF Sound
<1>10. Sound(b, w)
  BY <1>2, <1>6, <1>7, <1>8 DEF Sound, LintOutcomes
<1> QED
  BY <1>1, <1>7, <1>8, <1>9, <1>10 DEF SoundSeq

\* The type checker.
LEMMA TypesSound ==
    ASSUME NEW w \in World
    PROVE  /\ SoundSeq(TypesEvents(w), w)
           /\ \A i \in 1..Len(TypesEvents(w)) : TypesEvents(w)[i].from # "finalize"
<1> DEFINE status == TypesStatus(w)
           value  == [Plain(status) EXCEPT !.errors = IF status \in {"fail", "error"} THEN 1 ELSE 0]
           e      == Event("verify.types", "types", value, 0)
<1>1. TypesEvents(w) = <<e>>
  BY DEF TypesEvents
<1>2. /\ status \in Statuses
      /\ status = "pass" => w.types = "clean" \/ TakenForClean(w)
  BY DEF World, TypesOutcomes, TypesStatus, Statuses
<1> HIDE DEF status
<1>3. Plain(status) \in Signal /\ Plain(status).status = status
  BY <1>2, PlainFields
<1>4. /\ value \in Signal /\ value.status = status
      /\ value.errors = IF status \in {"fail", "error"} THEN 1 ELSE 0
  BY <1>3 DEF Signal
<1> HIDE DEF value
<1>5. e \in Events /\ e.kind = "verify.types" /\ e.from = "types" /\ e.value = value
  BY <1>4, KindNames, EventFields DEF Procs, Emitters
<1> HIDE DEF e
<1>6. Sound(e, w)
  BY <1>2, <1>4, <1>5 DEF Sound, Statuses
<1> QED
  BY <1>1, <1>5, <1>6, SingleSound

\* The dependency graph.
LEMMA GraphSound ==
    ASSUME NEW w \in World
    PROVE  /\ SoundSeq(GraphEvents(w), w)
           /\ \A i \in 1..Len(GraphEvents(w)) : GraphEvents(w)[i].from # "finalize"
<1> DEFINE status == CASE w.graph = "nothing" -> "skipped" [] w.graph = "clean" -> "pass"
                       [] w.graph = "broken" -> "fail" [] w.graph = "unreadable" -> "error"
           value  == [Plain(status) EXCEPT !.broken = IF status \in {"fail", "error"} THEN 1 ELSE 0]
           e      == Event("state.graph", "graph", value, 0)
<1>1. GraphEvents(w) = <<e>>
  BY DEF GraphEvents
<1>2. status \in Statuses /\ (status = "pass" => w.graph = "clean")
  BY DEF World, GraphOutcomes, Statuses
<1> HIDE DEF status
<1>3. Plain(status) \in Signal /\ Plain(status).status = status
  BY <1>2, PlainFields
<1>4. /\ value \in Signal /\ value.status = status
      /\ value.broken = IF status \in {"fail", "error"} THEN 1 ELSE 0
  BY <1>3 DEF Signal
<1> HIDE DEF value
<1>5. e \in Events /\ e.kind = "state.graph" /\ e.from = "graph" /\ e.value = value
  BY <1>4, KindNames, EventFields DEF Procs, Emitters
<1> HIDE DEF e
<1>6. Sound(e, w)
  BY <1>2, <1>4, <1>5 DEF Sound, Statuses
<1> QED
  BY <1>1, <1>5, <1>6, SingleSound

\* The import rules, on which no verdict depends.
LEMMA ImportsSound ==
    ASSUME NEW w \in World
    PROVE  /\ SoundSeq(ImportsEvents(w), w)
           /\ \A i \in 1..Len(ImportsEvents(w)) : ImportsEvents(w)[i].from # "finalize"
<1> DEFINE status == IF w.imports = "crash" THEN "error" ELSE "pass"
           e      == Event("verify.imports", "imports", Plain(status), 0)
<1>1. ImportsEvents(w) = <<e>>
  BY DEF ImportsEvents
<1>2. Plain(status) \in Signal
  BY PlainFields DEF Statuses
<1>3. e \in Events /\ e.kind = "verify.imports" /\ e.from = "imports"
  BY <1>2, KindNames, EventFields DEF Procs, Emitters
<1> HIDE DEF e
<1>4. Sound(e, w)
  BY <1>3 DEF Sound
<1> QED
  BY <1>1, <1>3, <1>4, SingleSound

\* The change report.
LEMMA ChangesSound ==
    ASSUME NEW w \in World
    PROVE  /\ SoundSeq(ChangesEvents(w), w)
           /\ \A i \in 1..Len(ChangesEvents(w)) : ChangesEvents(w)[i].from # "finalize"
<1> DEFINE n == IF w.changes = "some" THEN 1 ELSE 0
           e == Event("state.changes", "changes", Plain("pass"), n)
<1>1. ChangesEvents(w) = IF w.changes = "fails" THEN << >> ELSE <<e>>
  BY DEF ChangesEvents
<1>2. Plain("pass") \in Signal
  BY PlainFields DEF Statuses
<1>3. e \in Events /\ e.kind = "state.changes" /\ e.from = "changes" /\ e.changed = n
  BY <1>2, KindNames, EventFields DEF Procs, Emitters
<1> HIDE DEF e
<1>4. Sound(e, w)
  BY <1>3 DEF Sound
<1>5. CASE w.changes = "fails"
  BY <1>1, <1>5 DEF SoundSeq
<1>6. CASE w.changes # "fails"
  BY <1>1, <1>3, <1>4, <1>6, SingleSound
<1> QED
  BY <1>5, <1>6

\* All of them.
LEMMA EmitterSound ==
    ASSUME NEW w \in World, NEW p \in Emitters
    PROVE  /\ SoundSeq(EmitterEvents(p, w), w)
           /\ \A i \in 1..Len(EmitterEvents(p, w)) : EmitterEvents(p, w)[i].from # "finalize"
<1>1. CASE p \in {"lint", "security"}
  <2>1. EmitterEvents(p, w) = LintEvents(p, w)
    BY <1>1 DEF EmitterEvents
  <2> QED
    BY <1>1, <2>1, LintSound
<1>2. CASE p = "types"
  <2>1. EmitterEvents(p, w) = TypesEvents(w)
    BY <1>2 DEF EmitterEvents
  <2> QED
    BY <2>1, TypesSound
<1>3. CASE p = "changes"
  <2>1. EmitterEvents(p, w) = ChangesEvents(w)
    BY <1>3 DEF EmitterEvents
  <2> QED
    BY <2>1, ChangesSound
<1>4. CASE p = "graph"
  <2>1. EmitterEvents(p, w) = GraphEvents(w)
    BY <1>4 DEF EmitterEvents
  <2> QED
    BY <2>1, GraphSound
<1>5. CASE p = "imports"
  <2>1. EmitterEvents(p, w) = ImportsEvents(w)
    BY <1>5 DEF EmitterEvents
  <2> QED
    BY <2>1, ImportsSound
<1> QED
  BY <1>1, <1>2, <1>3, <1>4, <1>5 DEF Emitters

\* Sound sequences one after the other.
LEMMA ConcatSound ==
    ASSUME NEW w, NEW s, NEW t, SoundSeq(s, w), SoundSeq(t, w)
    PROVE  /\ SoundSeq(s \o t, w)
           /\ \A kind : Has(s, kind) \/ Has(t, kind) => Has(s \o t, kind)
           /\ Own(s) /\ Own(t) => Own(s \o t)
<1>1. /\ s \in Seq(Events) /\ t \in Seq(Events) /\ s \o t \in Seq(Events)
      /\ Len(s \o t) = Len(s) + Len(t) /\ Len(s) \in Nat /\ Len(t) \in Nat
  BY DEF SoundSeq
<1>2. \A i \in 1..Len(s \o t) :
        \/ i \in 1..Len(s) /\ (s \o t)[i] = s[i]
        \/ i - Len(s) \in 1..Len(t) /\ (s \o t)[i] = t[i - Len(s)]
  BY <1>1
<1>3. SoundSeq(s \o t, w)
  BY <1>1, <1>2 DEF SoundSeq
<1>6. Own(s) /\ Own(t) => Own(s \o t)
  BY <1>2 DEF Own
<1>4. ASSUME NEW kind, Has(s, kind) PROVE Has(s \o t, kind)
  <2>1. PICK i \in 1..Len(s) : s[i].kind = kind
    BY <1>4 DEF Has
  <2>2. i \in 1..Len(s \o t) /\ (s \o t)[i] = s[i]
    BY <1>1
  <2> QED
    BY <2>1, <2>2 DEF Has
<1>5. ASSUME NEW kind, Has(t, kind) PROVE Has(s \o t, kind)
  <2>1. PICK i \in 1..Len(t) : t[i].kind = kind
    BY <1>5 DEF Has
  <2>2. i + Len(s) \in 1..Len(s \o t) /\ (s \o t)[i + Len(s)] = t[i]
    BY <1>1
  <2> QED
    BY <2>1, <2>2 DEF Has
<1> QED
  BY <1>3, <1>4, <1>5, <1>6

\* The event of one signal of the delegation.
LEMMA ArtifactEventSound ==
    ASSUME NEW w \in World, NEW kind \in ArtifactKinds, NEW status \in Statuses
    PROVE  /\ SoundSeq(ArtifactEvent(kind, status, w), w)
           /\ kind \in w.artifacts => Has(ArtifactEvent(kind, status, w), kind)
           /\ Own(ArtifactEvent(kind, status, w))
<1> DEFINE e == Event(kind, "finalize", Plain(status), 0)
<1>1. ArtifactEvent(kind, status, w) = IF kind \in w.artifacts THEN <<e>> ELSE << >>
  BY DEF ArtifactEvent
<1>2. kind \in ReducerKinds /\ "finalize" \in Procs /\ Plain(status) \in Signal
  BY PlainFields DEF ReducerKinds, Procs
<1>3. e \in Events /\ e.kind = kind /\ e.from = "finalize"
  BY <1>2, EventFields
<1> HIDE DEF e
<1>4. Sound(e, w)
  BY <1>3 DEF Sound, ArtifactKinds
<1>5. CASE kind \in w.artifacts
  BY <1>1, <1>3, <1>4, <1>5, SingleSound DEF Has, Own
<1>6. CASE kind \notin w.artifacts
  BY <1>1, <1>6 DEF SoundSeq, Own
<1> QED
  BY <1>5, <1>6

\* The events of finalizeDelegation: each signal of the delegation is one.
LEMMA FinalizeSound ==
    ASSUME NEW w \in World
    PROVE  /\ SoundSeq(FinalizeEvents(w), w)
           /\ \A kind \in w.artifacts : Has(FinalizeEvents(w), kind)
           /\ Own(FinalizeEvents(w))
<1> DEFINE value == [Plain("fail") EXCEPT !.errors = 1]
           e     == Event("verify.types", "finalize", value, 0)
           b == ArtifactEvent("artifact.blocked", "fail", w)
           u == ArtifactEvent("artifact.unterminated", "fail", w)
           t == ArtifactEvent("artifact.truncated", "fail", w)
           m == ArtifactEvent("artifact.emitted", "pass", w)
           x == CheckEvent(w)
<1>1. Plain("fail") \in Signal
  BY PlainFields DEF Statuses
<1>2. value \in Signal /\ value.errors = 1
  BY <1>1 DEF Signal
<1> HIDE DEF value
<1>3. e \in Events /\ e.kind = "verify.types" /\ e.from = "finalize" /\ e.value = value
  BY <1>2, KindNames, EventFields DEF Procs
<1>4. x = IF w.checkFails THEN <<e>> ELSE << >>
  BY DEF CheckEvent, value
<1> HIDE DEF e
<1>5. Sound(e, w)
  BY <1>2, <1>3 DEF Sound, ArtifactKinds
<1>6. SoundSeq(x, w) /\ Own(x)
  <2>1. CASE w.checkFails
    BY <1>3, <1>4, <1>5, <2>1, SingleSound DEF Own
  <2>2. CASE ~w.checkFails
    BY <1>4, <2>2 DEF SoundSeq, Own
  <2> QED
    BY <2>1, <2>2
<1>7. /\ SoundSeq(b, w) /\ SoundSeq(u, w) /\ SoundSeq(t, w) /\ SoundSeq(m, w)
      /\ Own(b) /\ Own(u) /\ Own(t) /\ Own(m)
      /\ "artifact.blocked" \in w.artifacts => Has(b, "artifact.blocked")
      /\ "artifact.unterminated" \in w.artifacts => Has(u, "artifact.unterminated")
      /\ "artifact.truncated" \in w.artifacts => Has(t, "artifact.truncated")
      /\ "artifact.emitted" \in w.artifacts => Has(m, "artifact.emitted")
  BY ArtifactEventSound DEF ArtifactKinds, Statuses
<1>8. FinalizeEvents(w) = b \o u \o t \o m \o x
  BY DEF FinalizeEvents
<1> HIDE DEF b, u, t, m, x
<1>9. /\ SoundSeq(b \o u, w) /\ Own(b \o u)
      /\ \A kind : Has(b, kind) \/ Has(u, kind) => Has(b \o u, kind)
  BY <1>7, ConcatSound
<1>10. /\ SoundSeq(b \o u \o t, w) /\ Own(b \o u \o t)
       /\ \A kind : Has(b \o u, kind) \/ Has(t, kind) => Has(b \o u \o t, kind)
  BY <1>7, <1>9, ConcatSound
<1>11. /\ SoundSeq(b \o u \o t \o m, w) /\ Own(b \o u \o t \o m)
       /\ \A kind : Has(b \o u \o t, kind) \/ Has(m, kind) => Has(b \o u \o t \o m, kind)
  BY <1>7, <1>10, ConcatSound
<1>12. /\ SoundSeq(b \o u \o t \o m \o x, w) /\ Own(b \o u \o t \o m \o x)
       /\ \A kind : Has(b \o u \o t \o m, kind) => Has(b \o u \o t \o m \o x, kind)
  BY <1>6, <1>11, ConcatSound
<1>13. w.artifacts \subseteq ArtifactKinds
  BY DEF World
<1>14. ASSUME NEW kind \in w.artifacts PROVE Has(FinalizeEvents(w), kind)
  BY <1>7, <1>8, <1>9, <1>10, <1>11, <1>12, <1>13 DEF ArtifactKinds
<1> QED
  BY <1>8, <1>12, <1>14
-----------------------------------------------------------------------------
(* What the reducer makes of it *)

\* What reduce reads of a slot is the last of its stored events.
LEMMA SlotFacts ==
    ASSUME perTask \in [ReducerKinds -> Seq(Events)], NEW slot \in Slots
    PROVE  LET s == perTask[SlotKind(slot)]
           IN  /\ SlotKind(slot) \in ReducerKinds
               /\ s \in Seq(Events)
               /\ SlotSignals[slot] \in Seq(Signal)
               /\ Arrived(SlotSignals, slot) <=> s # << >>
               /\ s # << >> => /\ Latest(SlotSignals, slot) = s[Len(s)].value
                               /\ Latest(SlotSignals, slot) \in Signal
                               /\ Len(s) \in 1..Len(s)
<1> DEFINE s == perTask[SlotKind(slot)]
           v == [i \in 1..Len(s) |-> s[i].value]
<1>1. SlotKind(slot) \in ReducerKinds
  BY DEF ReducerKinds
<1>2. s \in Seq(Events) /\ Len(s) \in Nat
  BY <1>1
<1>3. SlotSignals[slot] = v
  BY DEF SlotSignals
<1> HIDE DEF s
<1>4. \A i \in 1..Len(s) : s[i] \in Events /\ s[i].value \in Signal
  <2>1. \A i \in 1..Len(s) : s[i] \in Events
    BY <1>2
  <2> QED
    BY <2>1 DEF Events
<1>5. v \in Seq(Signal) /\ Len(v) = Len(s) /\ \A i \in 1..Len(s) : v[i] = s[i].value
  BY <1>2, <1>4
<1> HIDE DEF v
<1>6. s # << >> <=> Len(s) # 0
  BY <1>2
<1>7. v # << >> <=> Len(v) # 0
  BY <1>5
<1> QED
  BY <1>1, <1>2, <1>3, <1>4, <1>5, <1>6, <1>7 DEF Arrived, Latest, s

\* What the delegation reported.
LEMMA ArtifactFacts ==
    ASSUME perTask \in [ReducerKinds -> Seq(Events)]
    PROVE  ArtifactSignals \in Artifacts
<1> DEFINE s == perTask["state.changes"]
<1>1. s \in Seq(Events)
  BY KindNames
<1> HIDE DEF s
<1>2. s # << >> => s[Len(s)] \in Events
  BY <1>1
<1>3. (IF s = << >> THEN 0 ELSE s[Len(s)].changed) \in Nat
  BY <1>2 DEF Events
<1> QED
  BY <1>3 DEF ArtifactSignals, Artifacts, s

\* The reducer answers with a packet, whatever reached it.
LEMMA ReduceType ==
    ASSUME NEW sigs, NEW art \in Artifacts, NEW policy \in Policy,
           \A slot \in Slots : Arrived(sigs, slot) => Latest(sigs, slot) \in Signal
    PROVE  Reduce(sigs, art, policy) \in Packet
<1>1. CriticalCount(sigs) \in Nat
  BY DEF CriticalCount, Signal, Slots
<1>2. BrokenEdges(sigs, policy) \in Nat
  BY DEF BrokenEdges, MissingCount, Signal, Slots
<1>3. \A slot \in Slots : SlotWeight(policy, slot) \in Weights
  BY DEF SlotWeight, Weights
<1>4. EnforcementFails(art) \in BOOLEAN /\ (art.unterminated \/ art.truncated) \in BOOLEAN
  BY DEF EnforcementFails
<1> QED
  BY <1>1, <1>2, <1>3, <1>4 DEF Reduce, Packet, Overalls, Slots

\* finalizeDelegation answers with a packet, which passes only if the reducer's did.
LEMMA FinalizeType ==
    ASSUME NEW packt \in Packet, NEW art, NEW mode
    PROVE  /\ FinalizePacket(packt, art, mode) \in Packet
           /\ FinalizePacket(packt, art, mode).overall = "pass" =>
                  /\ packt.overall = "pass"
                  /\ mode = "artifact" => art.changed # 0 \/ packt.enforcement
<1> DEFINE fails == \/ mode = "artifact" /\ art.changed = 0 /\ ~packt.enforcement
                    \/ mode = "schema-contract" /\ art.changed = 0 /\ ~art.emitted
           f == [packt EXCEPT !.overall = "fail", !.enforcement = TRUE,
                              !.protocolBroken = IF mode = "schema-contract" THEN FALSE ELSE @]
<1>1. f \in Packet /\ f.overall = "fail"
  BY DEF Packet, Overalls
<1>2. FinalizePacket(packt, art, mode) = IF fails THEN f ELSE packt
  BY DEF FinalizePacket
<1> HIDE DEF f
<1> QED
  BY <1>1, <1>2

\* A packet that passes has neither a hard nor a soft failure.
LEMMA ReducePass ==
    ASSUME NEW sigs, NEW art, NEW policy, Reduce(sigs, art, policy).overall = "pass"
    PROVE  /\ ~HardFailure(sigs, art, policy) /\ ~SoftFailure(sigs, policy)
           /\ Reduce(sigs, art, policy).enforcement = EnforcementFails(art)
BY DEF Reduce

\* The packet that stands for none.
LEMMA NoPacketType == NoPacket \in Packet
<1> DEFINE policy == [given |-> FALSE, required |-> {}, advisory |-> {}]
<1>1. policy \in Policy
  BY DEF Policy
<1>2. NoArtifacts \in Artifacts
  BY DEF NoArtifacts, Artifacts
<1>3. \A slot \in Slots : ~Arrived(NoSignals, slot)
  BY DEF Arrived, NoSignals
<1> HIDE DEF policy
<1>4. Reduce(NoSignals, NoArtifacts, policy) \in Packet
  BY <1>1, <1>2, <1>3, ReduceType
<1> QED
  BY <1>4 DEF NoPacket, EmptyPacket, policy
-----------------------------------------------------------------------------
(* The steps *)

\* A world the specification is about.
LEMMA WorldType ==
    ASSUME world \in Worlds
    PROVE  /\ world \in World /\ world.policy \in Policy
           /\ world.artifacts \subseteq ArtifactKinds
           /\ ~world.policy.given => world.policy.required = {}
BY DEF World

\* The initial states.
LEMMA InitInv == Init => Inv
<1> SUFFICES ASSUME Init PROVE Inv
  OBVIOUS
<1>1. world \in World
  BY WorldType DEF Init
<1>2. perTask = [kind \in ReducerKinds |-> << >>] /\ perTask \in [ReducerKinds -> Seq(Events)]
  BY DEF Init
<1>3. \A kind \in ReducerKinds : Len(perTask[kind]) = 0
  BY <1>2
<1>4. /\ pending["finalize"] = FinalizeEvents(world) /\ DOMAIN pending = Procs
      /\ \A p \in Emitters : pending[p] = << >>
  BY DEF Init, Procs, Emitters
<1>5. \A p \in Procs : SoundSeq(pending[p], world)
  <2>1. SoundSeq(<< >>, world)
    BY DEF SoundSeq
  <2> QED
    BY <1>1, <1>4, <2>1, FinalizeSound DEF Procs
<1>6. StillToCome
  BY <1>1, <1>4, FinalizeSound DEF StillToCome
<1>7. OrderOK
  <2>1. Own(pending["finalize"])
    BY <1>1, <1>4, FinalizeSound
  <2>2. \A p \in Emitters : Len(pending[p]) = 0
    BY <1>4
  <2>3. phase = "finalize" /\ bus = "open"
    BY DEF Init
  <2>4. \A n : n \in 1..0 => FALSE
    OBVIOUS
  <2> QED
    BY <1>3, <1>4, <1>6, <2>1, <2>2, <2>3, <2>4 DEF OrderOK
<1>8. /\ world \in Worlds /\ bus = "open" /\ phase = "finalize" /\ packet \in Packet
      /\ overflowed = FALSE
  BY NoPacketType DEF Init
<1>9. \A kind \in ReducerKinds : \A i \in 1..Len(perTask[kind]) : FALSE
  BY <1>3
<1> QED
  BY <1>2, <1>4, <1>5, <1>7, <1>8, <1>9 DEF Inv, PacketOK

\* An event that is emitted is stored under its kind or leaves nothing.
LEMMA EmitInv ==
    ASSUME Inv, NEW p \in Procs, Emit(p)
    PROVE  Inv'
<1> DEFINE s == pending[p]
           e == Head(s)
<1>1. /\ s # << >> /\ pending' = [pending EXCEPT ![p] = Tail(s)]
      /\ perTask' = IF Accepts(e) THEN [perTask EXCEPT ![e.kind] = Append(perTask[e.kind], e)]
                    ELSE perTask
      /\ UNCHANGED <<world, bus, phase, packet, overflowed>>
  BY DEF Emit
<1>2. SoundSeq(s, world) /\ s \in Seq(Events)
  BY DEF Inv, SoundSeq
<1> HIDE DEF s
<1>3. /\ Len(s) \in Nat /\ Len(s) > 0 /\ e = s[1] /\ e \in Events /\ 1 \in 1..Len(s)
      /\ Tail(s) \in Seq(Events) /\ Len(Tail(s)) = Len(s) - 1
      /\ \A i \in 1..Len(Tail(s)) : Tail(s)[i] = s[i + 1] /\ i + 1 \in 1..Len(s)
  BY <1>1, <1>2
<1>4. Sound(e, world) /\ SoundSeq(Tail(s), world)
  BY <1>2, <1>3 DEF SoundSeq
<1> HIDE DEF e
<1>5. e.kind \in ReducerKinds /\ e.from \in Procs
  BY <1>3 DEF Events
<1> DEFINE t == perTask[e.kind]
<1>6. t \in Seq(Events) /\ perTask \in [ReducerKinds -> Seq(Events)]
  BY <1>5 DEF Inv
<1>7. /\ Append(t, e) \in Seq(Events) /\ Len(Append(t, e)) = Len(t) + 1 /\ Len(t) \in Nat
      /\ Append(t, e)[Len(t) + 1] = e /\ \A i \in 1..Len(t) : Append(t, e)[i] = t[i]
      /\ Append(t, e) # << >>
  BY <1>3, <1>6
<1>8. /\ perTask' \in [ReducerKinds -> Seq(Events)]
      /\ \A kind \in ReducerKinds \ {e.kind} : perTask'[kind] = perTask[kind]
      /\ perTask'[e.kind] = IF Accepts(e) THEN Append(t, e) ELSE t
  BY <1>1, <1>5, <1>6, <1>7
<1> HIDE DEF t
<1>9. \A i \in 1..Len(perTask'[e.kind]) :
         \/ i \in 1..Len(t) /\ perTask'[e.kind][i] = t[i]
         \/ perTask'[e.kind][i] = e /\ Accepts(e)
  BY <1>6, <1>7, <1>8
<1>10. \A kind \in ReducerKinds : \A i \in 1..Len(perTask'[kind]) :
         \/ i \in 1..Len(perTask[kind]) /\ perTask'[kind][i] = perTask[kind][i]
         \/ perTask'[kind][i] = e /\ kind = e.kind /\ Accepts(e)
  <2> SUFFICES ASSUME NEW kind \in ReducerKinds, NEW i \in 1..Len(perTask'[kind])
               PROVE  \/ i \in 1..Len(perTask[kind]) /\ perTask'[kind][i] = perTask[kind][i]
                      \/ perTask'[kind][i] = e /\ kind = e.kind /\ Accepts(e)
    OBVIOUS
  <2>1. CASE kind = e.kind
    BY <1>9, <2>1 DEF t
  <2>2. CASE kind # e.kind
    BY <1>8, <2>2
  <2> QED
    BY <2>1, <2>2
<1>11. \A kind \in ReducerKinds : perTask[kind] # << >> => perTask'[kind] # << >>
  BY <1>7, <1>8 DEF t
<1>12. bus = "open" => perTask'[e.kind] # << >>
  <2>1. t = << >> => Len(t) = 0
    OBVIOUS
  <2>2. bus = "open" /\ t = << >> => Accepts(e)
    BY <2>1 DEF Accepts, t
  <2> QED
    BY <1>7, <1>8, <2>2
<1>13. /\ DOMAIN pending' = Procs /\ pending'[p] = Tail(s)
       /\ \A q \in Procs \ {p} : pending'[q] = pending[q]
  BY <1>1 DEF Inv
<1>14. \A q \in Procs : SoundSeq(pending'[q], world')
  BY <1>1, <1>4, <1>13 DEF Inv
<1>15. \A kind \in ReducerKinds : \A i \in 1..Len(perTask'[kind]) :
           perTask'[kind][i].kind = kind /\ Sound(perTask'[kind][i], world')
  BY <1>1, <1>4, <1>10 DEF Inv
<1>16. phase # "reduced" => PacketOK'
  BY <1>1 DEF PacketOK
<1>17. OrderOK'
  <2>1. world \in Worlds /\ OrderOK
    BY DEF Inv
  <2>2. world.artifacts \subseteq ReducerKinds
    BY <2>1, WorldType DEF ReducerKinds
  <2>3. /\ phase' \in {"finalize", "reduced"} => \A q \in Emitters : pending'[q] = << >>
        /\ phase' # "finalize" => pending'["finalize"] = << >>
    BY <1>1, <1>13, <2>1 DEF OrderOK, Procs, s
  <2>4. \A q \in Emitters : \A i \in 1..Len(pending'[q]) : pending'[q][i].from # "finalize"
    <3>1. \A q \in Emitters \ {p} : pending'[q] = pending[q]
      BY <1>13 DEF Procs
    <3>2. p \in Emitters => \A i \in 1..Len(Tail(s)) : Tail(s)[i].from # "finalize"
      BY <1>3, <2>1 DEF OrderOK, s
    <3>3. ASSUME NEW q \in Emitters, NEW i \in 1..Len(pending'[q])
          PROVE  pending'[q][i].from # "finalize"
      <4>1. CASE q = p
        BY <1>13, <3>2, <4>1
      <4>2. CASE q # p
        BY <2>1, <3>1, <4>2 DEF OrderOK
      <4> QED
        BY <4>1, <4>2
    <3> QED
      BY <3>3
  <2>5. AllStored => AllStored'
    BY <1>1, <1>11, <2>2 DEF AllStored
  <2>6. bus = "open" /\ StillToCome => StillToCome'
    <3> SUFFICES ASSUME bus = "open", StillToCome, NEW kind \in world.artifacts,
                        perTask[kind] = << >>, e.kind # kind
                 PROVE  Has(pending'["finalize"], kind)
      BY <1>1, <1>11, <1>12, <2>2 DEF StillToCome
    <3>1. PICK i \in 1..Len(pending["finalize"]) : pending["finalize"][i].kind = kind
      BY DEF StillToCome, Has
    <3>2. CASE p # "finalize"
      BY <1>13, <3>1, <3>2 DEF Has, Procs
    <3>3. CASE p = "finalize"
      <4>1. i \in 1..Len(s) /\ s[i].kind = kind /\ i # 1
        BY <1>3, <3>1, <3>3 DEF s
      <4>2. i - 1 \in 1..Len(Tail(s)) /\ Tail(s)[i - 1] = s[i]
        BY <1>3, <4>1
      <4> QED
        BY <1>13, <3>3, <4>1, <4>2 DEF Has
    <3> QED
      BY <3>2, <3>3
  <2>7. Own(pending["finalize"])'
    <3>1. CASE p = "finalize"
      <4>1. Own(s) /\ pending'["finalize"] = Tail(s)
        BY <1>13, <2>1, <3>1 DEF OrderOK, s
      <4> QED
        BY <1>3, <4>1 DEF Own
    <3>2. CASE p # "finalize"
      <4>1. pending'["finalize"] = pending["finalize"]
        BY <1>13, <3>2 DEF Procs
      <4> QED
        BY <2>1, <4>1 DEF OrderOK, Own
    <3> QED
      BY <3>1, <3>2
  <2>8. ~overflowed /\ Accepts(e) /\ e.from # "finalize" => phase # "finalize" /\ AllStored
    <3>1. e.from # "finalize" => p \in Emitters
      BY <1>3, <2>1 DEF OrderOK, Own, s, Procs
    <3>2. p \in Emitters => phase # "finalize"
      BY <1>1, <2>1 DEF OrderOK, s
    <3> QED
      BY <2>1, <3>1, <3>2 DEF OrderOK, Accepts
  <2>9. ~overflowed' =>
          \A kind \in ReducerKinds : \A i \in 1..Len(perTask'[kind]) :
              perTask'[kind][i].from # "finalize" => phase' # "finalize" /\ AllStored'
    BY <1>1, <1>10, <2>1, <2>5, <2>8 DEF OrderOK
  <2>10. ~overflowed' /\ bus' = "open" =>
           IF phase' = "finalize" THEN StillToCome' ELSE AllStored'
    BY <1>1, <2>1, <2>5, <2>6 DEF OrderOK
  <2>11. bus' = "full" => overflowed'
    BY <1>1, <2>1 DEF OrderOK
  <2> QED
    BY <2>3, <2>4, <2>7, <2>9, <2>10, <2>11 DEF OrderOK
<1>18. phase # "reduced"
  BY <1>1 DEF Inv, OrderOK, Procs, s
<1> QED
  BY <1>1, <1>8, <1>13, <1>14, <1>15, <1>16, <1>17, <1>18 DEF Inv

\* The verifiers start when the delegation's signals are out.
LEMMA RunInv ==
    ASSUME Inv, runVerifiers
    PROVE  Inv'
<1>1. /\ phase = "finalize" /\ pending["finalize"] = << >> /\ phase' = "verifying"
      /\ DOMAIN pending' = Procs /\ "finalize" \notin Emitters /\ Procs = Emitters \cup {"finalize"}
      /\ pending'["finalize"] = << >>
      /\ \A p \in Emitters : pending'[p] = EmitterEvents(p, world)
      /\ UNCHANGED <<world, bus, perTask, packet, overflowed>>
  BY DEF runVerifiers, Procs, Emitters
<1>2. world \in World
  BY WorldType DEF Inv
<1>3. \A p \in Emitters : /\ SoundSeq(pending'[p], world)
                          /\ \A i \in 1..Len(pending'[p]) : pending'[p][i].from # "finalize"
  BY <1>1, <1>2, EmitterSound
<1>4. SoundSeq(<< >>, world) /\ Own(<< >>)
  BY DEF SoundSeq, Own
<1>5. \A p \in Procs : SoundSeq(pending'[p], world')
  BY <1>1, <1>3, <1>4
<1>6. StillToCome => AllStored
  BY <1>1 DEF StillToCome, AllStored, Has
<1>7. OrderOK'
  <2>1. OrderOK /\ (AllStored => AllStored')
    BY <1>1 DEF Inv, AllStored
  <2>2. Own(pending'["finalize"])
    BY <1>1, <1>4
  <2> QED
    BY <1>1, <1>3, <1>6, <2>1, <2>2 DEF OrderOK, Own
<1> QED
  BY <1>1, <1>5, <1>7 DEF Inv, PacketOK

\* The packet is made when the last verifier has ended.
LEMMA ReduceInv ==
    ASSUME Inv, reduce
    PROVE  Inv'
<1> DEFINE art == ArtifactSignals
           raw == Reduce(SlotSignals, art, world.policy)
<1>1. /\ phase = "verifying" /\ phase' = "reduced" /\ \A p \in Emitters : pending[p] = << >>
      /\ packet' = FinalizePacket(raw, art, world.mode)
      /\ UNCHANGED <<world, bus, perTask, pending, overflowed>>
  BY DEF reduce
<1>2. world.policy \in Policy /\ perTask \in [ReducerKinds -> Seq(Events)]
  BY WorldType DEF Inv
<1>3. art \in Artifacts
  BY <1>2, ArtifactFacts
<1>4. \A slot \in Slots : Arrived(SlotSignals, slot) => Latest(SlotSignals, slot) \in Signal
  BY <1>2, SlotFacts
<1> HIDE DEF art
<1>5. raw \in Packet
  BY <1>2, <1>3, <1>4, ReduceType
<1> HIDE DEF raw
<1>6. packet' \in Packet
  BY <1>1, <1>5, FinalizeType
<1>7. SlotSignals' = SlotSignals /\ ArtifactSignals' = ArtifactSignals
  BY <1>1 DEF SlotSignals, ArtifactSignals
<1>8. PacketOK'
  BY <1>1, <1>7 DEF PacketOK, raw, art
<1>9. OrderOK'
  <2>1. OrderOK /\ (AllStored => AllStored')
    BY <1>1 DEF Inv, AllStored
  <2> QED
    BY <1>1, <2>1 DEF OrderOK, Own
<1> QED
  BY <1>1, <1>6, <1>8, <1>9 DEF Inv

\* The bus fills, empties or is shut down.
LEMMA BusInv ==
    ASSUME Inv, BusFills \/ BusEmpties \/ BusShutsDown
    PROVE  Inv'
<1>1. /\ UNCHANGED <<world, perTask, pending, phase, packet>>
      /\ bus' \in {"open", "full", "down"}
      /\ bus' = "open" => overflowed
      /\ overflowed' \in BOOLEAN
      /\ overflowed => overflowed'
      /\ bus' = "full" => overflowed'
  <2>1. overflowed \in BOOLEAN /\ (bus = "full" => overflowed)
    BY DEF Inv, OrderOK
  <2>2. CASE BusFills
    BY <2>1, <2>2 DEF BusFills, BusChanges
  <2>3. CASE BusEmpties
    BY <2>1, <2>3 DEF BusEmpties, BusChanges
  <2>4. CASE BusShutsDown
    BY <2>1, <2>4 DEF BusShutsDown, BusChanges
  <2> QED
    BY <2>2, <2>3, <2>4
<1>2. SlotSignals' = SlotSignals /\ ArtifactSignals' = ArtifactSignals
  BY <1>1 DEF SlotSignals, ArtifactSignals
<1>3. PacketOK'
  BY <1>1, <1>2 DEF Inv, PacketOK
<1>4. OrderOK'
  <2>1. OrderOK /\ (AllStored => AllStored')
    BY <1>1 DEF Inv, AllStored
  <2> QED
    BY <1>1, <2>1 DEF OrderOK, Own
<1> QED
  BY <1>1, <1>3, <1>4 DEF Inv

\* Every step keeps the invariant.
LEMMA NextInv == Inv /\ [Next]_vars => Inv'
<1> SUFFICES ASSUME Inv, [Next]_vars PROVE Inv'
  OBVIOUS
<1>1. CASE UNCHANGED vars
  <2>1. UNCHANGED <<world, bus, perTask, pending, phase, packet, overflowed>>
    BY <1>1 DEF vars
  <2>2. SlotSignals' = SlotSignals /\ ArtifactSignals' = ArtifactSignals
    BY <2>1 DEF SlotSignals, ArtifactSignals
  <2>3. PacketOK'
    BY <2>1, <2>2 DEF Inv, PacketOK
  <2>4. OrderOK'
    BY <2>1 DEF Inv, OrderOK, Own, AllStored, StillToCome
  <2> QED
    BY <2>1, <2>3, <2>4 DEF Inv
<1>2. CASE Next
  BY <1>2, EmitInv, RunInv, ReduceInv, BusInv DEF Next, Step
<1> QED
  BY <1>1, <1>2

\* The specification keeps the invariant.
LEMMA Invariance == Spec => []Inv
BY InitInv, NextInv, PTL DEF Spec
-----------------------------------------------------------------------------
(* Theorems *)

\* Whatever reached the reducer, its signals are filed under their kinds and
\* its packet has counts that are natural numbers.
THEOREM VerificationTypeCorrect == Spec => []TypeOK
<1>1. Inv => TypeOK
  <2> SUFFICES ASSUME Inv PROVE TypeOK
    OBVIOUS
  <2>1. \A kind \in ReducerKinds : \A i \in 1..Len(perTask[kind]) : perTask[kind][i] \in Events
    BY DEF Inv
  <2>2. \A kind \in ReducerKinds : \A i \in 1..Len(perTask[kind]) :
            perTask[kind][i].kind = kind /\ perTask[kind][i].value \in Signal
    BY <2>1 DEF Inv, Events
  <2> QED
    BY <2>2 DEF Inv, TypeOK
<1> QED
  BY <1>1, Invariance, PTL

\* What an overall pass says of one required slot: its last signal came, was
\* not a skip, and its event is one a tool could emit in this world.
LEMMA RequiredSlot ==
    ASSUME Inv, ~HardFailure(SlotSignals, ArtifactSignals, world.policy),
           NEW slot \in world.policy.required
    PROVE  LET s == perTask[SlotKind(slot)]
               e == s[Len(s)]
           IN  /\ slot \in Slots /\ SlotKind(slot) \in ReducerKinds
               /\ world.policy.given /\ Len(s) \in 1..Len(s)
               /\ Arrived(SlotSignals, slot) /\ Latest(SlotSignals, slot) = e.value
               /\ e.kind = SlotKind(slot) /\ Sound(e, world)
               /\ e.value \in Signal /\ e.value.status # "skipped"
<1> DEFINE s == perTask[SlotKind(slot)]
<1>1. world.policy.given /\ slot \in Slots
  BY WorldType DEF Inv, Policy
<1>2. Arrived(SlotSignals, slot) /\ Latest(SlotSignals, slot).status # "skipped"
  BY <1>1 DEF HardFailure, RequiredUnmet
<1>3. /\ SlotKind(slot) \in ReducerKinds /\ s # << >>
      /\ Latest(SlotSignals, slot) = s[Len(s)].value
      /\ Latest(SlotSignals, slot) \in Signal /\ Len(s) \in 1..Len(s)
  BY <1>1, <1>2, SlotFacts DEF Inv
<1>4. s[Len(s)].kind = SlotKind(slot) /\ Sound(s[Len(s)], world)
  BY <1>3 DEF Inv
<1> QED
  BY <1>1, <1>2, <1>3, <1>4

\* An overall pass was earned: no check the policy requires was skipped, lost
\* or reported a finding (a type checker may have been taken for clean), an
\* artifact run changed a file, and neither a blocked path nor a broken artifact
\* protocol was forgotten, for every policy and every order of the events.
THEOREM PassEarned == Spec => []PassMeansVerified
<1>1. Inv => PassMeansVerified
  <2> SUFFICES ASSUME Inv, phase = "reduced", packet.overall = "pass"
               PROVE  /\ RequiredChecksPassed
                      /\ world.mode = "artifact" => world.changes = "some"
                      /\ ~overflowed /\ world.policy.required # {} =>
                             world.artifacts \subseteq {"artifact.emitted"}
    BY DEF PassMeansVerified
  <2> DEFINE sigs   == SlotSignals
             art    == ArtifactSignals
             policy == world.policy
             raw    == Reduce(sigs, art, policy)
  <2>1. /\ world \in Worlds /\ world \in World /\ policy \in Policy
        /\ world.artifacts \subseteq ArtifactKinds
        /\ perTask \in [ReducerKinds -> Seq(Events)]
    BY WorldType DEF Inv
  <2>2. packet = FinalizePacket(raw, art, world.mode)
    BY DEF Inv, PacketOK
  <2>3. raw \in Packet
    <3>1. \A slot \in Slots : Arrived(sigs, slot) => Latest(sigs, slot) \in Signal
      BY <2>1, SlotFacts
    <3>2. art \in Artifacts
      BY <2>1, ArtifactFacts
    <3> QED
      BY <2>1, <3>1, <3>2, ReduceType
  <2> HIDE DEF raw
  <2>4. /\ raw.overall = "pass"
        /\ world.mode = "artifact" => art.changed # 0 \/ raw.enforcement
    BY <2>2, <2>3, FinalizeType
  <2>5. /\ ~HardFailure(sigs, art, policy) /\ ~SoftFailure(sigs, policy)
        /\ raw.enforcement = EnforcementFails(art)
    BY <2>4, ReducePass DEF raw
  <2>6. ~EnforcementFails(art)
    BY <2>5 DEF HardFailure
  <2>7. RequiredChecksPassed
    <3>1. ASSUME "lint" \in policy.required
          PROVE  world.lint = "clean" \/ world.security = "clean"
      <4> DEFINE t == perTask[SlotKind("lint")]
                 e == t[Len(t)]
      <4>1. /\ Arrived(sigs, "lint") /\ Latest(sigs, "lint") = e.value
            /\ e.kind = SlotKind("lint") /\ Sound(e, world) /\ e.value \in Signal
        BY <2>5, <3>1, RequiredSlot
      <4> HIDE DEF e
      <4>2. ~(e.value.errors > 0) /\ ~(e.value.warnings > 0)
        BY <2>5, <4>1 DEF HardFailure, SoftFailure, ErrorCount, LintWarnings
      <4>3. e.value.errors = 0 /\ e.value.warnings = 0
        BY <4>1, <4>2 DEF Signal
      <4>4. e.kind = "verify.lint"
        BY <4>1 DEF SlotKind
      <4> QED
        BY <4>1, <4>3, <4>4 DEF Sound
    <3>2. ASSUME "security" \in policy.required
          PROVE  \E p \in {"lint", "security"} : Found(p, world) \in {"clean", "warnings", "errors"}
      <4> DEFINE t == perTask[SlotKind("security")]
                 e == t[Len(t)]
      <4>1. /\ Arrived(sigs, "security") /\ Latest(sigs, "security") = e.value
            /\ e.kind = SlotKind("security") /\ Sound(e, world) /\ e.value \in Signal
        BY <2>5, <3>2, RequiredSlot
      <4> HIDE DEF e
      <4>2. ~(e.value.critical > 0) /\ ~(e.value.high > 0)
        BY <2>5, <4>1 DEF HardFailure, SoftFailure, CriticalCount, HighCount
      <4>3. e.value.critical = 0 /\ e.value.high = 0
        BY <4>1, <4>2 DEF Signal
      <4>4. e.kind = "verify.security"
        BY <4>1 DEF SlotKind
      <4> QED
        BY <4>1, <4>3, <4>4 DEF Sound
    <3>3. ASSUME "types" \in policy.required
          PROVE  world.types = "clean" \/ TakenForClean(world)
      <4> DEFINE t == perTask[SlotKind("types")]
                 e == t[Len(t)]
      <4>1. /\ Arrived(sigs, "types") /\ Latest(sigs, "types") = e.value
            /\ e.kind = SlotKind("types") /\ Sound(e, world) /\ e.value \in Signal
            /\ e.value.status # "skipped"
        BY <2>5, <3>3, RequiredSlot
      <4> HIDE DEF e
      <4>2. ~(e.value.errors > 0)
        BY <2>5, <4>1 DEF HardFailure, ErrorCount
      <4>3. e.value.errors = 0
        BY <4>1, <4>2 DEF Signal
      <4>4. e.kind = "verify.types"
        BY <4>1 DEF SlotKind
      <4> QED
        BY <4>1, <4>3, <4>4 DEF Sound
    <3>4. ASSUME "graph" \in policy.required
          PROVE  world.graph = "clean"
      <4> DEFINE t == perTask[SlotKind("graph")]
                 e == t[Len(t)]
      <4>1. /\ Arrived(sigs, "graph") /\ Latest(sigs, "graph") = e.value
            /\ e.kind = SlotKind("graph") /\ Sound(e, world) /\ e.value \in Signal
            /\ e.value.status # "skipped"
        BY <2>5, <3>4, RequiredSlot
      <4> HIDE DEF e
      <4>2. ~(e.value.broken > 0)
        BY <2>5, <3>4, <4>1 DEF HardFailure, BrokenEdges, SlotWeight
      <4>3. e.value.broken = 0
        BY <4>1, <4>2 DEF Signal
      <4>4. e.kind = "state.graph"
        BY <4>1 DEF SlotKind
      <4> QED
        BY <4>1, <4>3, <4>4 DEF Sound
    <3> QED
      BY <3>1, <3>2, <3>3, <3>4 DEF RequiredChecksPassed
  <2>8. ASSUME world.mode = "artifact" PROVE world.changes = "some"
    <3> DEFINE t == perTask["state.changes"]
    <3>1. art.changed # 0 /\ art.changed = IF t = << >> THEN 0 ELSE t[Len(t)].changed
      BY <2>4, <2>5, <2>6, <2>8 DEF ArtifactSignals
    <3>2. t \in Seq(Events) /\ t # << >> /\ "state.changes" \in ReducerKinds
      BY <2>1, <3>1, KindNames
    <3>3. Len(t) \in 1..Len(t)
      BY <3>2
    <3>4. t[Len(t)].kind = "state.changes" /\ Sound(t[Len(t)], world)
      BY <3>2, <3>3 DEF Inv
    <3> QED
      BY <3>1, <3>2, <3>4 DEF Sound
  <2>9. ASSUME ~overflowed, NEW slot \in policy.required
        PROVE  world.artifacts \subseteq {"artifact.emitted"}
    <3> DEFINE t == perTask[SlotKind(slot)]
               e == t[Len(t)]
    <3>1. /\ slot \in Slots /\ SlotKind(slot) \in ReducerKinds /\ Len(t) \in 1..Len(t)
          /\ Arrived(sigs, slot) /\ Latest(sigs, slot) = e.value
          /\ e.kind = SlotKind(slot) /\ Sound(e, world) /\ e.value \in Signal
      BY <2>5, <2>9, RequiredSlot
    <3>2. e.from # "finalize"
      <4> SUFFICES ASSUME e.from = "finalize" PROVE FALSE
        OBVIOUS
      <4> HIDE DEF e
      <4>1. e.kind \notin ArtifactKinds
        BY <3>1 DEF SlotKind, Slots, ArtifactKinds
      <4>2. e.kind = "verify.types" /\ e.value.errors = 1
        BY <3>1, <4>1 DEF Sound
      <4>3. slot = "types"
        BY <3>1, <4>2 DEF SlotKind, Slots
      <4>4. ErrorCount(sigs, policy, "types") = 1
        BY <3>1, <4>2, <4>3 DEF ErrorCount
      <4> QED
        BY <2>5, <4>4 DEF HardFailure
    <3>3. AllStored
      BY <2>9, <3>1, <3>2 DEF Inv, OrderOK
    <3>4. ~art.blocked /\ ~art.unterminated /\ ~art.truncated
      BY <2>6 DEF EnforcementFails
    <3>5. /\ perTask["artifact.blocked"] = << >> /\ perTask["artifact.unterminated"] = << >>
          /\ perTask["artifact.truncated"] = << >>
      BY <3>4 DEF ArtifactSignals
    <3> QED
      BY <2>1, <3>3, <3>5 DEF AllStored, ArtifactKinds
  <2> QED
    BY <2>7, <2>8, <2>9
<1> QED
  BY <1>1, Invariance, PTL
=============================================================================
