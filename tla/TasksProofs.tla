----------------------------- MODULE TasksProofs -----------------------------
(***************************************************************************)
(* The files that delegations write, for every answer, contract and crash; *)
(* plans of subtasks and their execution, for whatever the model answers;  *)
(* the store of runs, for any number of processes that open, write, back   *)
(* up and restore one database and crash; and the sandbox, for every call  *)
(* and every race of the timer, the end of the child, its forks and its    *)
(* output.                                                                 *)
(***************************************************************************)
EXTENDS Tasks, FiniteSetTheorems, FunctionTheorems, SequenceTheorems, WellFoundedInduction, TLAPS

Single(S) == S = {} \/ \E e \in S : S = {e}

\* A set with one element at most has at most one.
LEMMA SingleCardinality ==
    ASSUME NEW S, Single(S)
    PROVE  Cardinality(S) <= 1
<1>1. CASE S = {}
  BY <1>1, FS_EmptySet
<1>2. CASE S # {}
  <2>1. PICK e \in S : S = {e}
    BY <1>2 DEF Single
  <2>2. Cardinality({e}) = 1
    BY FS_Singleton
  <2> QED
    BY <2>1, <2>2
<1> QED
  BY <1>1, <1>2

\* A set of naturals has a smallest element.
LEMMA Smallest ==
    ASSUME NEW T, T \subseteq Nat, T # {}
    PROVE  \E x \in T : \A y \in T : x <= y
<1> DEFINE R == {ss \in Nat \X Nat : ss[1] < ss[2]}
<1>1. IsWellFoundedOn(R, Nat)
  BY NatLessThanWellFounded DEF OpToRel
<1> HIDE DEF R
<1>2. PICK x \in T : \A y \in T : ~(<<y, x>> \in R)
  BY <1>1, WFMin
<1>3. ASSUME NEW y \in T PROVE x <= y
  <2>1. ~(y < x)
    BY <1>2, <1>3 DEF R
  <2> QED
    BY <2>1
<1> QED
  BY <1>3
-----------------------------------------------------------------------------
(* The files that delegations write *)

WritePhases == {"idle", "asked", "asked again", "writing", "checked", "done", "failed", "dead"}

IsCall(c) ==
    c = [phase |-> c.phase, mode |-> c.mode, target |-> c.target, emission |-> c.emission,
         work |-> c.work, results |-> c.results, tmp |-> c.tmp, signals |-> c.signals,
         files |-> c.files]

\* One delegation writes, and it is the one in that phase.
CallsOK ==
    /\ settings \in [legacy : BOOLEAN, markers : BOOLEAN]
    /\ dir = [f \in Places |-> dir[f]]
    /\ call = [d \in Delegations |-> call[d]]
    /\ \A d \in Delegations : IsCall(call[d]) /\ call[d].phase \in WritePhases
    /\ running \subseteq Delegations /\ \A d, e \in running : d = e
    /\ \A d \in Delegations : d \in running <=> call[d].phase \in {"writing", "checked"}
    /\ edits \in 0..MaxUserEdits
    /\ edited \subseteq Places /\ raced \subseteq edited

Whole(d) ==
    /\ \A e \in call[d].emission : ~ Truncated(e)
    /\ "artifact.unterminated" \notin call[d].signals

\* What is left to write comes from a whole answer, is one file at most where
\* the target is pinned, and what has been checked is not there yet.
WorkOK(d) ==
    /\ DOMAIN call[d].work \subseteq Nat
    /\ d \notin running => DOMAIN call[d].work = {} /\ call[d].results = {}
    /\ call[d].mode # "hardPrompt" => call[d].target = {}
    /\ call[d].target # {} => \A i, j \in DOMAIN call[d].work : i = j
    /\ DOMAIN call[d].work # {} => Whole(d)
    /\ call[d].phase # "checked" => call[d].tmp = {}
    /\ call[d].phase = "checked" =>
          /\ DOMAIN call[d].work # {} /\ Current(d).name.file \in Places
          /\ call[d].tmp \in {{}, {Current(d).content}}
          /\ call[d].target = {} =>
                /\ dir[Current(d).name.file] = {} \/ Current(d).name.file \in raced
                /\ \A p \in put : p[2] # Current(d).name.file

\* A rename left something in its place, from a whole answer; its delegation
\* remembers it until it reports it.
PutOK(p) ==
    /\ p[1] \in Delegations /\ p[2] \in Places /\ dir[p[2]] # {}
    /\ call[p[1]].phase \in {"writing", "checked", "done", "dead"}
    /\ Whole(p[1])
    /\ p[4] # {} => call[p[1]].target # {} \/ p[2] \in raced
    /\ call[p[1]].target # {} => DOMAIN call[p[1]].work = {}
    /\ p[1] \in running =>
          /\ dir[p[2]] \in {p[3], {UserContent}}
          /\ \E r \in call[p[1]].results : r.ok /\ r.name.file = p[2] /\ {r.content} = p[3]
    /\ call[p[1]].phase = "done" => \E h \in {p[3], {UserContent}} : Reports(p[1], p[2], h)

\* A result that is ok was put, and stays what it is but for the user.
ResultsOK(d) ==
    \A r \in call[d].results : r.ok =>
        /\ \E p \in put : p[1] = d /\ p[2] = r.name.file
        /\ dir[r.name.file] = {r.content} \/ r.name.file \in edited

FilesOK(d) ==
    \A x \in call[d].files :
        /\ call[d].phase = "done"
        /\ \E p \in put : p[1] = d /\ p[2] = x.file
        /\ \/ dir[x.file] = x.hash
           \/ x.file \in edited
           \/ \E p \in put : p[1] # d /\ p[2] = x.file /\ call[p[1]].target # {}

\* A line that carries a file is still to be written or has its result.
Lines(c, e, legacy) ==
    \/ c.signals \cap {"artifact.unterminated", "artifact.truncated"} # {}
    \/ \A j \in DOMAIN e.lines : ~ Taken(e.lines[j], legacy)
    \/ \A i \in DOMAIN e.lines : e.lines[i].shape = "file" =>
          \/ \E r \in c.results : r.name = e.lines[i].name
          \/ \E k \in DOMAIN c.work : c.work[k].name = e.lines[i].name

LinesOK(d) ==
    d \in running /\ call[d].mode = "artifact" =>
      \A e \in call[d].emission : Lines(call[d], e, settings.legacy)

SilentOK(d) ==
    call[d].phase = "done" /\ call[d].mode = "artifact" =>
      \A e \in call[d].emission : \A i \in DOMAIN e.lines :
        \/ e.lines[i].shape # "file"
        \/ \E x \in call[d].files : x.file = e.lines[i].name.file
        \/ call[d].signals \cap {"artifact.blocked", "artifact.unterminated", "artifact.truncated"} # {}
        \/ \A j \in DOMAIN e.lines : ~ Taken(e.lines[j], settings.legacy)

\* What is in a file was there, or the user or a delegation put it there.
DirOK ==
    \A f \in Places : \/ dir[f] \in {{}, {Original}, {UserContent}}
                      \/ \E p \in put : p[2] = f /\ p[3] = dir[f]

DelegationOK(d) == WorkOK(d) /\ ResultsOK(d) /\ FilesOK(d) /\ LinesOK(d) /\ SilentOK(d)

ArtifactInv ==
    /\ CallsOK /\ DirOK
    /\ \A d \in Delegations : DelegationOK(d)
    /\ \A p \in put : PutOK(p)

\* The invariant says what is to be shown.
LEMMA ArtifactInvImplies ==
    ASSUME ArtifactInv PROVE ArtifactTypeOK /\ WritesAccounted
<1>1. CallsOK /\ DirOK
  BY DEF ArtifactInv
<1>2. /\ \A d \in Delegations : FilesOK(d) /\ SilentOK(d)
      /\ \A p \in put : PutOK(p)
  BY DEF ArtifactInv, DelegationOK
<1>3. ArtifactTypeOK
  <2>1. Cardinality(running) <= 1
    <3>1. CASE running = {}
      BY <3>1, FS_EmptySet
    <3>2. CASE running # {}
      <4>1. PICK d \in running : running = {d}
        BY <3>2, <1>1 DEF CallsOK
      <4>2. Cardinality({d}) = 1
        BY FS_Singleton
      <4> QED
        BY <4>1, <4>2
    <3> QED
      BY <3>1, <3>2
  <2>2. DOMAIN dir = Places
    BY <1>1 DEF CallsOK
  <2> QED
    BY <2>1, <2>2, <1>1 DEF CallsOK, ArtifactTypeOK, WritePhases
<1>4. PutsReported
  BY <1>1, <1>2 DEF DirOK, PutOK, Whole, PutsReported
<1>5. NothingOverwritten
  BY <1>2 DEF PutOK, NothingOverwritten, forceOverwrite
<1>6. ReportStays
  BY <1>2 DEF FilesOK, ReportStays, forceOverwrite
<1>7. NothingSilent
  BY <1>2 DEF SilentOK, NothingSilent
<1> QED
  BY <1>3, <1>4, <1>5, <1>6, <1>7 DEF WritesAccounted

\* Nothing is written at first.
LEMMA ArtifactInitInv == ASSUME ArtifactInit PROVE ArtifactInv
<1>1. /\ settings \in [legacy : BOOLEAN, markers : BOOLEAN] /\ running = {} /\ put = {}
      /\ edits = 0 /\ edited = {} /\ raced = {}
      /\ dir \in [Places -> {{}, {Original}}] /\ call = [d \in Delegations |-> NotAsked]
  BY DEF ArtifactInit
<1>2. IsCall(NotAsked) /\ NotAsked.phase = "idle" /\ DOMAIN NotAsked.work = {}
      /\ NotAsked.results = {} /\ NotAsked.tmp = {} /\ NotAsked.files = {} /\ NotAsked.target = {}
  <2>1. DOMAIN << >> = {}
    BY EmptySeq
  <2> QED
    BY <2>1 DEF NotAsked, IsCall
<1>3. \A d \in Delegations : call[d] = NotAsked
  BY <1>1
<1>4. CallsOK
  <2>1. dir = [f \in Places |-> dir[f]] /\ call = [d \in Delegations |-> call[d]]
    BY <1>1
  <2>2. edits \in 0..MaxUserEdits
    BY <1>1, ArtifactAssumption
  <2>3. \A d \in Delegations : IsCall(call[d]) /\ call[d].phase = "idle"
    BY <1>2, <1>3
  <2> QED
    BY <1>1, <2>1, <2>2, <2>3 DEF CallsOK, WritePhases
<1>5. \A d \in Delegations : DelegationOK(d)
  BY <1>1, <1>2, <1>3 DEF DelegationOK, WorkOK, ResultsOK, FilesOK, LinesOK, SilentOK
<1>6. DirOK
  BY <1>1 DEF DirOK
<1> QED
  BY <1>1, <1>4, <1>5, <1>6 DEF ArtifactInv

\* A step of one delegation that leaves the files alone leaves the others alone.
LEMMA OthersKept ==
    ASSUME ArtifactInv, NEW d \in Delegations, UNCHANGED <<settings, dir, put, edited, raced>>,
           \A e \in Delegations \ {d} : call'[e] = call[e] /\ (e \in running' <=> e \in running),
           call'[d].target = call[d].target \/ \A p \in put : p[1] # d
    PROVE  /\ \A e \in Delegations \ {d} : DelegationOK(e)'
           /\ \A p \in put : p[1] # d => PutOK(p)'
           /\ DirOK'
<1>1. ASSUME NEW e \in Delegations, e # d PROVE DelegationOK(e)'
  <2>1. DelegationOK(e)
    BY DEF ArtifactInv
  <2>2. call'[e] = call[e] /\ (e \in running' <=> e \in running) /\ Current(e)' = Current(e)
    BY <1>1 DEF Current
  <2>3. WorkOK(e)'
    BY <2>1, <2>2 DEF DelegationOK, WorkOK, Whole, Truncated
  <2>4. ResultsOK(e)' /\ LinesOK(e)' /\ SilentOK(e)'
    BY <2>1, <2>2 DEF DelegationOK, ResultsOK, LinesOK, SilentOK, Taken
  <2>5. \A p \in put : p[1] \in Delegations /\ (call[p[1]].target # {} => call'[p[1]].target # {})
    BY DEF ArtifactInv, PutOK
  <2>6. FilesOK(e)'
    BY <2>1, <2>2, <2>5 DEF DelegationOK, FilesOK
  <2> QED
    BY <2>3, <2>4, <2>6 DEF DelegationOK
<1>2. ASSUME NEW p \in put, p[1] # d PROVE PutOK(p)'
  <2>1. PutOK(p)
    BY DEF ArtifactInv
  <2>2. call'[p[1]] = call[p[1]] /\ (p[1] \in running' <=> p[1] \in running)
    BY <2>1, <1>2 DEF PutOK
  <2> QED
    BY <2>1, <2>2 DEF PutOK, Whole, Truncated, Reports
<1>3. DirOK'
  BY DEF ArtifactInv, DirOK
<1> QED
  BY <1>1, <1>2, <1>3

\* Such a step keeps the invariant if it keeps what is said of that delegation.
LEMMA CallMoves ==
    ASSUME ArtifactInv, NEW d \in Delegations, UNCHANGED <<settings, dir, edits, put, edited, raced>>,
           call' = [e \in Delegations |-> call'[e]],
           \A e \in Delegations \ {d} : call'[e] = call[e] /\ (e \in running' <=> e \in running),
           IsCall(call'[d]), call'[d].phase \in WritePhases,
           running' \subseteq Delegations, \A e, g \in running' : e = g,
           d \in running' <=> call'[d].phase \in {"writing", "checked"},
           call'[d].target = call[d].target \/ \A p \in put : p[1] # d,
           DelegationOK(d)', \A p \in put : p[1] = d => PutOK(p)'
    PROVE  ArtifactInv'
<1>1. /\ \A e \in Delegations \ {d} : DelegationOK(e)'
      /\ \A p \in put : p[1] # d => PutOK(p)'
      /\ DirOK'
  BY OthersKept
<1>2. CallsOK'
  <2>1. CallsOK
    BY DEF ArtifactInv
  <2>2. \A e \in Delegations : IsCall(call'[e]) /\ call'[e].phase \in WritePhases
    BY <2>1 DEF CallsOK
  <2>3. \A e \in Delegations : e \in running' <=> call'[e].phase \in {"writing", "checked"}
    BY <2>1 DEF CallsOK
  <2>4. dir' = [f \in Places |-> dir'[f]]
    BY <2>1 DEF CallsOK
  <2> QED
    BY <2>1, <2>2, <2>3, <2>4 DEF CallsOK, IsCall
<1>3. \A e \in Delegations : DelegationOK(e)'
  BY <1>1
<1>4. \A p \in put : PutOK(p)'
  BY <1>1
<1>5. put' = put
  OBVIOUS
<1> QED
  BY <1>1, <1>2, <1>3, <1>4, <1>5 DEF ArtifactInv

\* What is known of a delegation.
LEMMA CallFacts ==
    ASSUME ArtifactInv, NEW d \in Delegations
    PROVE  /\ IsCall(call[d]) /\ call = [e \in Delegations |-> call[e]]
           /\ running \subseteq Delegations /\ \A e, g \in running : e = g
           /\ d \in running <=> call[d].phase \in {"writing", "checked"}
           /\ WorkOK(d) /\ ResultsOK(d) /\ FilesOK(d) /\ LinesOK(d) /\ SilentOK(d)
           /\ call[d].phase \in WritePhases
           /\ call[d].phase \in {"idle", "asked", "asked again", "failed"} =>
                 (\A p \in put : p[1] # d) /\ call[d].files = {}
           /\ dir = [f \in Places |-> dir[f]]
<1>1. CallsOK /\ DelegationOK(d) /\ \A p \in put : PutOK(p)
  BY DEF ArtifactInv
<1>2. call[d].phase \in {"idle", "asked", "asked again", "failed"} =>
         (\A p \in put : p[1] # d) /\ call[d].files = {}
  BY <1>1 DEF PutOK, DelegationOK, FilesOK
<1> QED
  BY <1>1, <1>2 DEF CallsOK, DelegationOK

\* A step of one delegation, as the fields of its call.
LEMMA OneCall ==
    ASSUME ArtifactInv, NEW d \in Delegations, NEW c, call' = [call EXCEPT ![d] = c]
    PROVE  /\ call' = [e \in Delegations |-> call'[e]] /\ call'[d] = c
           /\ \A e \in Delegations \ {d} : call'[e] = call[e]
<1>1. call = [e \in Delegations |-> call[e]]
  BY CallFacts
<1> QED
  BY <1>1

\* A step before anything is written.
LEMMA QuietStep ==
    ASSUME ArtifactInv, NEW d \in Delegations, NEW c, IsCall(c), call' = [call EXCEPT ![d] = c],
           call[d].phase \in {"idle", "asked", "asked again"},
           UNCHANGED <<settings, dir, running, edits, put, edited, raced>>,
           c.phase \in {"asked", "asked again", "failed", "done"},
           c.phase = "done" => c.mode # "artifact", c.mode # "hardPrompt" => c.target = {},
           c.work = call[d].work, c.results = call[d].results, c.tmp = call[d].tmp,
           c.files = call[d].files
    PROVE  ArtifactInv'
<1>1. /\ call' = [e \in Delegations |-> call'[e]] /\ call'[d] = c
      /\ \A e \in Delegations \ {d} : call'[e] = call[e]
  BY OneCall
<1>2. /\ d \notin running /\ (\A p \in put : p[1] # d) /\ call[d].files = {}
      /\ DOMAIN call[d].work = {} /\ call[d].results = {} /\ call[d].tmp = {}
  BY CallFacts DEF WorkOK
<1>3. DelegationOK(d)'
  BY <1>1, <1>2 DEF DelegationOK, WorkOK, ResultsOK, FilesOK, LinesOK, SilentOK
<1>4. running' \subseteq Delegations /\ \A e, g \in running' : e = g
  BY CallFacts
<1>5. c.phase \in WritePhases /\ c.phase \notin {"writing", "checked"}
  BY DEF WritePhases
<1>6. d \in running' <=> call'[d].phase \in {"writing", "checked"}
  BY <1>1, <1>2, <1>5
<1>7. IsCall(call'[d]) /\ call'[d].phase \in WritePhases
  BY <1>1, <1>5
<1> QED
  BY <1>1, <1>2, <1>3, <1>4, <1>6, <1>7, CallMoves

\* delegate is called.
LEMMA DelegateInv ==
    ASSUME ArtifactInv, NEW d \in Delegations, Delegate(d) PROVE ArtifactInv'
<1>1. call = [e \in Delegations |-> call[e]] /\ IsCall(call[d]) /\ WorkOK(d)
  BY CallFacts
<1>2. PICK m \in {"artifact", "hardPrompt", "schemaContract"}, t \in {{}} \cup {{n} : n \in Targets} :
         /\ m # "hardPrompt" => t = {}
         /\ call' = [call EXCEPT ![d].phase = "asked", ![d].mode = m, ![d].target = t]
  BY DEF Delegate
<1>3. PICK c : c = [call[d] EXCEPT !.phase = "asked", !.mode = m, !.target = t]
  OBVIOUS
<1>4. call' = [call EXCEPT ![d] = c]
  BY <1>1, <1>2, <1>3
<1>5. /\ IsCall(c) /\ c.phase = "asked" /\ c.mode = m /\ c.target = t /\ c.work = call[d].work
      /\ c.results = call[d].results /\ c.tmp = call[d].tmp /\ c.files = call[d].files
  BY <1>1, <1>3 DEF IsCall
<1>6. /\ call[d].phase = "idle"
      /\ UNCHANGED <<settings, dir, running, edits, put, edited, raced>>
  BY DEF Delegate
<1> QED
  BY <1>2, <1>4, <1>5, <1>6, QuietStep

\* Its model call fails.
LEMMA ExecuteFailsInv ==
    ASSUME ArtifactInv, NEW d \in Delegations, ExecuteFails(d) PROVE ArtifactInv'
<1>1. call = [e \in Delegations |-> call[e]] /\ IsCall(call[d]) /\ WorkOK(d)
  BY CallFacts
<1>2. PICK c : c = [call[d] EXCEPT !.phase = "failed"]
  OBVIOUS
<1>3. call' = [call EXCEPT ![d] = c]
  BY <1>1, <1>2 DEF ExecuteFails
<1>4. /\ IsCall(c) /\ c.phase = "failed" /\ c.mode = call[d].mode /\ c.target = call[d].target
      /\ c.work = call[d].work
      /\ c.results = call[d].results /\ c.tmp = call[d].tmp /\ c.files = call[d].files
  BY <1>1, <1>2 DEF IsCall
<1>5. /\ call[d].phase \in {"asked", "asked again"}
      /\ UNCHANGED <<settings, dir, running, edits, put, edited, raced>>
  BY DEF ExecuteFails
<1>6. c.mode # "hardPrompt" => c.target = {}
  BY <1>1, <1>4 DEF WorkOK
<1> QED
  BY <1>3, <1>4, <1>5, <1>6, QuietStep

\* An answer in contract mode writes nothing.
LEMMA ContractInv ==
    ASSUME ArtifactInv, NEW d \in Delegations, NEW e, running = {},
           call[d].phase \in {"asked", "asked again"},
           ContractMissing(d, e) \/ ContractAnswered(d, e),
           UNCHANGED <<settings, dir, edits, put, edited, raced>>
    PROVE  ArtifactInv'
<1>1. call = [g \in Delegations |-> call[g]] /\ IsCall(call[d]) /\ WorkOK(d)
  BY CallFacts
<1>2. CASE ContractMissing(d, e)
  <2>1. PICK ph : ph = IF call[d].phase = "asked" THEN "asked again" ELSE "failed"
    OBVIOUS
  <2>2. PICK c : c = [call[d] EXCEPT !.phase = ph, !.emission = {e}]
    OBVIOUS
  <2>3. call' = [call EXCEPT ![d] = c] /\ UNCHANGED running /\ call[d].mode = "schemaContract"
    BY <1>1, <1>2, <2>1, <2>2 DEF ContractMissing
  <2>4. /\ IsCall(c) /\ c.phase = ph /\ c.mode = call[d].mode /\ c.target = call[d].target
        /\ c.work = call[d].work
        /\ c.results = call[d].results /\ c.tmp = call[d].tmp /\ c.files = call[d].files
    BY <1>1, <2>2 DEF IsCall
  <2>5. c.target = {} /\ ph \in {"asked again", "failed"}
    BY <1>1, <2>1, <2>3, <2>4 DEF WorkOK
  <2> QED
    BY <2>3, <2>4, <2>5, QuietStep
<1>3. CASE ContractAnswered(d, e)
  <2>1. PICK m : m = IF call[d].emission = {} THEN {e} ELSE call[d].emission
    OBVIOUS
  <2>2. PICK s : s = {"emission", "schema.validated"}
                     \cup {x \in {"artifact.truncated"} :
                             \E first \in IF call[d].emission = {} THEN {e} ELSE call[d].emission :
                                Truncated(first)}
    OBVIOUS
  <2>3. PICK c : c = [call[d] EXCEPT !.phase = "done", !.emission = m, !.signals = s]
    OBVIOUS
  <2>4. call' = [call EXCEPT ![d] = c] /\ UNCHANGED running /\ call[d].mode = "schemaContract"
    BY <1>1, <1>3, <2>1, <2>2, <2>3 DEF ContractAnswered
  <2>5. /\ IsCall(c) /\ c.phase = "done" /\ c.mode = call[d].mode /\ c.target = call[d].target
        /\ c.work = call[d].work
        /\ c.results = call[d].results /\ c.tmp = call[d].tmp /\ c.files = call[d].files
    BY <1>1, <2>3 DEF IsCall
  <2>6. c.target = {}
    BY <1>1, <2>4, <2>5 DEF WorkOK
  <2> QED
    BY <2>4, <2>5, <2>6, QuietStep
<1> QED
  BY <1>2, <1>3


\* Nothing is at any position of the empty sequence.
LEMMA NoPositions == DOMAIN << >> = {}
BY EmptySeq

\* An answer is taken: what is to be written comes from a whole answer.
LEMMA AnswerTaken ==
    ASSUME ArtifactInv, NEW d \in Delegations, NEW e, NEW c, IsCall(c),
           call' = [call EXCEPT ![d] = c], running = {}, running' = {d},
           call[d].phase \in {"asked", "asked again"},
           UNCHANGED <<settings, dir, edits, put, edited, raced>>,
           c.phase = "writing", c.emission = {e}, c.mode = call[d].mode,
           c.target = call[d].target, c.tmp = call[d].tmp, c.files = call[d].files,
           DOMAIN c.work \subseteq Nat, c.target # {} => \A i, j \in DOMAIN c.work : i = j,
           DOMAIN c.work # {} => ~ Truncated(e) /\ "artifact.unterminated" \notin c.signals,
           \A r \in c.results : ~ r.ok,
           c.mode = "artifact" => Lines(c, e, settings.legacy)
    PROVE  ArtifactInv'
<1>1. /\ call' = [g \in Delegations |-> call'[g]] /\ call'[d] = c
      /\ \A g \in Delegations \ {d} : call'[g] = call[g]
  BY OneCall
<1>2. /\ d \notin running /\ (\A p \in put : p[1] # d) /\ call[d].files = {}
      /\ call[d].tmp = {} /\ (call[d].mode # "hardPrompt" => call[d].target = {})
  BY CallFacts DEF WorkOK
<1>3. WorkOK(d)'
  BY <1>1, <1>2 DEF WorkOK, Whole, Truncated
<1>4. LinesOK(d)'
  BY <1>1 DEF LinesOK
<1>5. ResultsOK(d)' /\ FilesOK(d)' /\ SilentOK(d)'
  BY <1>1, <1>2 DEF ResultsOK, FilesOK, SilentOK
<1>6. DelegationOK(d)'
  BY <1>3, <1>4, <1>5 DEF DelegationOK
<1>7. IsCall(call'[d]) /\ call'[d].phase \in WritePhases
  BY <1>1 DEF WritePhases
<1>8. /\ running' \subseteq Delegations /\ \A g, h \in running' : g = h
      /\ d \in running' <=> call'[d].phase \in {"writing", "checked"}
      /\ \A g \in Delegations \ {d} : g \in running' <=> g \in running
  BY <1>1
<1> QED
  BY <1>1, <1>2, <1>6, <1>7, <1>8, CallMoves

\* What the parsers find stands at lines of the answer, and a strict answer
\* that has a usable line has a file for every line that carries one.
LEMMA Parsed ==
    ASSUME NEW lines, DOMAIN lines \subseteq Nat
    PROVE  /\ DOMAIN parseJsonlArtifacts(lines).artifacts \subseteq Nat
           /\ parseJsonlArtifacts(lines).strict =>
                \/ \A j \in DOMAIN lines : ~ Taken(lines[j], settings.legacy)
                \/ \A i \in DOMAIN lines : lines[i].shape = "file" =>
                     \E k \in DOMAIN parseJsonlArtifacts(lines).artifacts :
                        parseJsonlArtifacts(lines).artifacts[k].name = lines[i].name
<1>1. PICK taken : taken = {i \in DOMAIN lines : Taken(lines[i], settings.legacy)}
  OBVIOUS
<1>2. CASE taken # {}
  <2>1. PICK arts : arts = [i \in taken |-> [name |-> lines[i].name, content |-> <<lines[i].content>>]]
    OBVIOUS
  <2>2. PICK st : st = \A i \in DOMAIN lines : ~ Breaks(lines[i], settings.legacy)
    OBVIOUS
  <2>3. parseJsonlArtifacts(lines) = [artifacts |-> arts, strict |-> st]
    BY <1>1, <1>2, <2>1, <2>2 DEF parseJsonlArtifacts
  <2>4. parseJsonlArtifacts(lines).artifacts = arts /\ parseJsonlArtifacts(lines).strict = st
    BY <2>3
  <2>5. DOMAIN arts = taken /\ \A i \in taken : arts[i].name = lines[i].name
    BY <2>1
  <2>6. st => \A i \in DOMAIN lines : lines[i].shape = "file" => i \in taken
    BY <2>2, <1>1 DEF Breaks
  <2> QED
    BY <2>4, <2>5, <2>6, <1>1
<1>3. CASE taken = {}
  <2>1. \A j \in DOMAIN lines : ~ Taken(lines[j], settings.legacy)
    BY <1>1, <1>3
  <2>2. CASE settings.markers
    <3>1. parseJsonlArtifacts(lines) = parseArtifacts(lines)
      BY <1>1, <1>3, <2>2 DEF parseJsonlArtifacts
    <3>2. DOMAIN parseArtifacts(lines).artifacts \subseteq DOMAIN lines
      BY DEF parseArtifacts
    <3> QED
      BY <2>1, <3>1, <3>2
  <2>3. CASE ~ settings.markers
    <3>1. parseJsonlArtifacts(lines).artifacts = << >>
      BY <1>1, <1>3, <2>3 DEF parseJsonlArtifacts
    <3>2. DOMAIN << >> = {}
      BY NoPositions
    <3> QED
      BY <2>1, <3>1, <3>2
  <2> QED
    BY <2>2, <2>3
<1> QED
  BY <1>2, <1>3

\* An answer in artifact mode is taken.
LEMMA ArtifactsAnsweredInv ==
    ASSUME ArtifactInv, NEW d \in Delegations, running = {},
           call[d].phase \in {"asked", "asked again"}, NEW e \in Emissions[call[d].mode],
           ArtifactsAnswered(d, e), UNCHANGED <<settings, dir, edits, put, edited, raced>>
    PROVE  ArtifactInv'
<1>1. call = [g \in Delegations |-> call[g]] /\ IsCall(call[d]) /\ WorkOK(d)
  BY CallFacts
<1>2. call[d].mode = "artifact" /\ running' = {d} /\ call[d].target = {}
  BY <1>1 DEF ArtifactsAnswered, WorkOK
<1>3. DOMAIN e.lines \subseteq Nat
  BY <1>2, ArtifactAssumption
<1>4. PICK parsed : parsed = parseJsonlArtifacts(e.lines)
  OBVIOUS
<1>5. PICK w : w = IF ~ parsed.strict \/ Truncated(e) THEN << >> ELSE parsed.artifacts
  OBVIOUS
<1>6. PICK rs : rs = IF ~ parsed.strict \/ Truncated(e)
                     THEN {[name |-> art.name, ok |-> FALSE, content |-> art.content] :
                             art \in Artifacts(parsed.artifacts)}
                     ELSE {}
  OBVIOUS
<1>7. PICK sg : sg = {"emission"}
                     \cup {x \in {"artifact.unterminated"} : ~ parsed.strict}
                     \cup {x \in {"artifact.truncated"} : Truncated(e)}
  OBVIOUS
<1>8. PICK c : c = [call[d] EXCEPT !.phase = "writing", !.emission = {e}, !.work = w,
                                   !.results = rs, !.signals = sg]
  OBVIOUS
<1>9. call' = [call EXCEPT ![d] = c]
  BY <1>1, <1>4, <1>5, <1>6, <1>7, <1>8 DEF ArtifactsAnswered
<1>10. /\ IsCall(c) /\ c.phase = "writing" /\ c.emission = {e} /\ c.work = w /\ c.results = rs
       /\ c.signals = sg /\ c.mode = call[d].mode /\ c.target = call[d].target
       /\ c.tmp = call[d].tmp /\ c.files = call[d].files
  BY <1>1, <1>8 DEF IsCall
<1>11. DOMAIN w \subseteq Nat
  <2>1. DOMAIN << >> = {}
    BY NoPositions
  <2> QED
    BY <2>1, <1>3, <1>4, <1>5, Parsed
<1>12. DOMAIN w # {} => ~ Truncated(e) /\ "artifact.unterminated" \notin sg
  <2>1. DOMAIN << >> = {}
    BY NoPositions
  <2>2. DOMAIN w # {} => ~ Truncated(e) /\ parsed.strict
    BY <2>1, <1>5
  <2> QED
    BY <2>2, <1>7
<1>13. \A r \in rs : ~ r.ok
  <2>1. CASE ~ parsed.strict \/ Truncated(e)
    <3>1. rs = {[name |-> art.name, ok |-> FALSE, content |-> art.content] :
                  art \in Artifacts(parsed.artifacts)}
      BY <2>1, <1>6
    <3>2. ASSUME NEW r \in rs PROVE ~ r.ok
      <4>1. PICK art \in Artifacts(parsed.artifacts) :
               r = [name |-> art.name, ok |-> FALSE, content |-> art.content]
        BY <3>1, <3>2
      <4>2. r.ok = FALSE
        BY <4>1
      <4> QED
        BY <4>2
    <3> QED
      BY <3>2
  <2>2. CASE ~ (~ parsed.strict \/ Truncated(e))
    BY <2>2, <1>6
  <2> QED
    BY <2>1, <2>2
<1>14. Lines(c, e, settings.legacy)
  <2>1. CASE ~ parsed.strict \/ Truncated(e)
    <3>1. "artifact.unterminated" \in sg \/ "artifact.truncated" \in sg
      BY <2>1, <1>7
    <3> QED
      BY <3>1, <1>10 DEF Lines
  <2>2. CASE parsed.strict /\ ~ Truncated(e)
    <3>1. w = parsed.artifacts
      BY <2>2, <1>5
    <3>2. \/ \A j \in DOMAIN e.lines : ~ Taken(e.lines[j], settings.legacy)
          \/ \A i \in DOMAIN e.lines : e.lines[i].shape = "file" =>
               \E k \in DOMAIN w : w[k].name = e.lines[i].name
      BY <3>1, <2>2, <1>3, <1>4, Parsed
    <3> QED
      BY <3>2, <1>10 DEF Lines
  <2> QED
    BY <2>1, <2>2
<1> QED
  BY <1>2, <1>9, <1>10, <1>11, <1>12, <1>13, <1>14, AnswerTaken

\* Of the code blocks at most one goes to a pinned file.
LEMMA OneBlock ==
    ASSUME NEW blocks \in Seq(Seq(Content)), NEW target
    PROVE  /\ DOMAIN codeBlocks(blocks, target) \subseteq Nat
           /\ target # {} => \A i, j \in DOMAIN codeBlocks(blocks, target) : i = j
<1> DEFINE Largest == {i \in DOMAIN blocks : Len(blocks[i]) > 0 /\ \A j \in DOMAIN blocks :
                          Len(blocks[j]) < Len(blocks[i]) \/ (Len(blocks[j]) = Len(blocks[i]) /\ i <= j)}
<1>1. DOMAIN codeBlocks(blocks, target) =
         IF target # {} /\ Len(blocks) > 1 THEN Largest ELSE DOMAIN blocks
  BY DEF codeBlocks
<1>2. DOMAIN blocks = 1..Len(blocks) /\ Len(blocks) \in Nat
  OBVIOUS
<1>3. \A i \in DOMAIN blocks : Len(blocks[i]) \in Nat
  <2>1. \A i \in DOMAIN blocks : blocks[i] \in Seq(Content)
    BY <1>2
  <2> QED
    BY <2>1
<1>4. \A i, j \in Largest : i = j
  BY <1>2, <1>3
<1>5. Len(blocks) <= 1 => \A i, j \in DOMAIN blocks : i = j
  BY <1>2
<1>6. Largest \subseteq DOMAIN blocks
  OBVIOUS
<1>7. DOMAIN blocks \subseteq Nat
  BY <1>2
<1> HIDE DEF Largest
<1>8. ASSUME target # {} PROVE \A i, j \in DOMAIN codeBlocks(blocks, target) : i = j
  <2>1. CASE Len(blocks) > 1
    BY <2>1, <1>1, <1>4, <1>8
  <2>2. CASE ~ (Len(blocks) > 1)
    BY <2>2, <1>1, <1>2, <1>5
  <2> QED
    BY <2>1, <2>2
<1> QED
  BY <1>1, <1>6, <1>7, <1>8

\* An answer in hard-prompt mode is taken.
LEMMA BlocksAnsweredInv ==
    ASSUME ArtifactInv, NEW d \in Delegations, running = {},
           call[d].phase \in {"asked", "asked again"}, NEW e \in Emissions[call[d].mode],
           BlocksAnswered(d, e), UNCHANGED <<settings, dir, edits, put, edited, raced>>
    PROVE  ArtifactInv'
<1>1. call = [g \in Delegations |-> call[g]] /\ IsCall(call[d]) /\ WorkOK(d)
  BY CallFacts
<1>2. call[d].mode = "hardPrompt" /\ running' = {d} /\ call[d].results = {}
  BY <1>1 DEF BlocksAnswered, WorkOK
<1>3. e.blocks \in Seq(Seq(Content))
  BY <1>2, ArtifactAssumption
<1>4. PICK w : w = IF Truncated(e) THEN << >> ELSE codeBlocks(e.blocks, call[d].target)
  OBVIOUS
<1>5. PICK sg : sg = {"emission", "files.written"} \cup {x \in {"artifact.truncated"} : Truncated(e)}
  OBVIOUS
<1>6. PICK c : c = [call[d] EXCEPT !.phase = "writing", !.emission = {e}, !.work = w, !.signals = sg]
  OBVIOUS
<1>7. call' = [call EXCEPT ![d] = c]
  BY <1>1, <1>4, <1>5, <1>6 DEF BlocksAnswered
<1>8. /\ IsCall(c) /\ c.phase = "writing" /\ c.emission = {e} /\ c.work = w
      /\ c.results = call[d].results
      /\ c.signals = sg /\ c.mode = call[d].mode /\ c.target = call[d].target
      /\ c.tmp = call[d].tmp /\ c.files = call[d].files
  BY <1>1, <1>6 DEF IsCall
<1>9. DOMAIN << >> = {}
  BY NoPositions
<1>10. DOMAIN w \subseteq Nat /\ (call[d].target # {} => \A i, j \in DOMAIN w : i = j)
  <2>1. CASE Truncated(e)
    BY <2>1, <1>4, <1>9
  <2>2. CASE ~ Truncated(e)
    BY <2>2, <1>3, <1>4, OneBlock
  <2> QED
    BY <2>1, <2>2
<1>11. DOMAIN w # {} => ~ Truncated(e)
  BY <1>4, <1>9
<1>12. "artifact.unterminated" \notin sg
  BY <1>5
<1>13. c.mode # "artifact" /\ \A r \in c.results : ~ r.ok
  BY <1>2, <1>8
<1> QED
  BY <1>2, <1>7, <1>8, <1>10, <1>11, <1>12, <1>13, AnswerTaken


\* The next file is one of those to be written, and its result replaces it.
LEMMA NextFile ==
    ASSUME ArtifactInv, NEW d \in Delegations, DOMAIN call[d].work # {}
    PROVE  /\ First(call[d].work) \in DOMAIN call[d].work
           /\ DOMAIN Rest(call[d].work) = DOMAIN call[d].work \ {First(call[d].work)}
           /\ \A i \in DOMAIN Rest(call[d].work) : Rest(call[d].work)[i] = call[d].work[i]
<1>1. DOMAIN call[d].work \subseteq Nat
  BY CallFacts DEF WorkOK
<1>2. \E i \in DOMAIN call[d].work : \A j \in DOMAIN call[d].work : i <= j
  BY <1>1, Smallest
<1>3. First(call[d].work) \in DOMAIN call[d].work
  BY <1>2 DEF First
<1> QED
  BY <1>3 DEF Rest

\* A file less to be written, and its result more.
LEMMA FileDone ==
    ASSUME ArtifactInv, NEW d \in Delegations, DOMAIN call[d].work # {}, NEW c, NEW ok,
           c.results = call[d].results \cup {Result(d, ok)}, c.work = Rest(call[d].work),
           c.signals = call[d].signals, NEW e, Lines(call[d], e, settings.legacy)
    PROVE  Lines(c, e, settings.legacy)
<1>1. Result(d, ok).name = call[d].work[First(call[d].work)].name
  BY DEF Result, Current
<1>2. \A k \in DOMAIN call[d].work :
         \/ k \in DOMAIN c.work /\ c.work[k] = call[d].work[k]
         \/ Result(d, ok).name = call[d].work[k].name
  BY <1>1, NextFile
<1>3. Result(d, ok) \in c.results /\ call[d].results \subseteq c.results
  OBVIOUS
<1> QED
  BY <1>2, <1>3 DEF Lines

\* A file is passed over, or its write fails.
LEMMA FilePassed ==
    ASSUME ArtifactInv, NEW d \in Delegations, NEW c, IsCall(c), call' = [call EXCEPT ![d] = c],
           d \in running, DOMAIN call[d].work # {},
           UNCHANGED <<settings, dir, running, edits, put, edited, raced>>,
           c.phase = "writing", c.tmp = {}, c.mode = call[d].mode, c.target = call[d].target,
           c.emission = call[d].emission, c.signals = call[d].signals, c.files = call[d].files,
           c.results = call[d].results \cup {Result(d, FALSE)}, c.work = Rest(call[d].work)
    PROVE  ArtifactInv'
<1>1. /\ call' = [g \in Delegations |-> call'[g]] /\ call'[d] = c
      /\ \A g \in Delegations \ {d} : call'[g] = call[g]
  BY OneCall
<1>2. /\ WorkOK(d) /\ ResultsOK(d) /\ FilesOK(d) /\ LinesOK(d)
      /\ running \subseteq Delegations /\ \A e, g \in running : e = g
      /\ call[d].phase \in {"writing", "checked"}
  BY CallFacts
<1>3. DOMAIN c.work \subseteq DOMAIN call[d].work
  BY NextFile
<1>4. WorkOK(d)'
  BY <1>1, <1>2, <1>3 DEF WorkOK, Whole, Truncated
<1>5. LinesOK(d)'
  BY <1>1, <1>2, FileDone DEF LinesOK
<1>6. ResultsOK(d)'
  <2>1. Result(d, FALSE).ok = FALSE
    BY DEF Result
  <2>2. ASSUME NEW r \in c.results, r.ok PROVE r \in call[d].results
    BY <2>1, <2>2
  <2> QED
    BY <1>1, <1>2, <2>2 DEF ResultsOK
<1>7. call[d].files = {}
  BY <1>2 DEF FilesOK
<1>8. FilesOK(d)' /\ SilentOK(d)'
  BY <1>1, <1>7 DEF FilesOK, SilentOK
<1>9. DelegationOK(d)'
  BY <1>4, <1>5, <1>6, <1>8 DEF DelegationOK
<1>10. ASSUME NEW p \in put, p[1] = d PROVE PutOK(p)'
  <2>1. PutOK(p)
    BY DEF ArtifactInv
  <2>2. call[d].target = {}
    BY <2>1, <1>10 DEF PutOK
  <2>3. Whole(d)'
    BY <2>1, <1>10, <1>1 DEF PutOK, Whole, Truncated
  <2> QED
    BY <2>1, <2>2, <2>3, <1>10, <1>1 DEF PutOK
<1>11. IsCall(call'[d]) /\ call'[d].phase \in WritePhases
  BY <1>1 DEF WritePhases
<1>12. d \in running' <=> call'[d].phase \in {"writing", "checked"}
  BY <1>1
<1> QED
  BY <1>1, <1>2, <1>9, <1>10, <1>11, <1>12, CallMoves

\* A file that is being written is passed over without a trace of it.
LEMMA WriteFailsInv ==
    ASSUME ArtifactInv, NEW d \in Delegations, WriteFails(d) PROVE ArtifactInv'
<1>1. call = [g \in Delegations |-> call[g]] /\ IsCall(call[d]) /\ WorkOK(d)
  BY CallFacts
<1>2. PICK rs : rs = call[d].results \cup {Result(d, FALSE)}
  OBVIOUS
<1>3. PICK w : w = Rest(call[d].work)
  OBVIOUS
<1>4. PICK c : c = [call[d] EXCEPT !.phase = "writing", !.tmp = {}, !.results = rs, !.work = w]
  OBVIOUS
<1>5. call' = [call EXCEPT ![d] = c]
  BY <1>1, <1>2, <1>3, <1>4 DEF WriteFails
<1>6. /\ IsCall(c) /\ c.phase = "writing" /\ c.tmp = {} /\ c.results = rs /\ c.work = w
      /\ c.mode = call[d].mode /\ c.target = call[d].target /\ c.emission = call[d].emission
      /\ c.signals = call[d].signals /\ c.files = call[d].files
  BY <1>1, <1>4 DEF IsCall
<1>7. /\ d \in running /\ call[d].phase = "checked"
      /\ UNCHANGED <<settings, dir, running, edits, put, edited, raced>>
  BY DEF WriteFails
<1>8. DOMAIN call[d].work # {}
  BY <1>1, <1>7 DEF WorkOK
<1> QED
  BY <1>2, <1>3, <1>5, <1>6, <1>7, <1>8, FilePassed

\* The checked file and its temporary copy, before the rename.
LEMMA FileChecked ==
    ASSUME ArtifactInv, NEW d \in Delegations, NEW c, IsCall(c), call' = [call EXCEPT ![d] = c],
           d \in running, DOMAIN call[d].work # {},
           UNCHANGED <<settings, dir, running, edits, put, edited, raced>>,
           c.phase = "checked", c.tmp \in {{}, {Current(d).content}}, c.mode = call[d].mode,
           c.target = call[d].target, c.emission = call[d].emission, c.signals = call[d].signals,
           c.files = call[d].files, c.results = call[d].results, c.work = call[d].work,
           Current(d).name.file \in Places,
           call[d].target = {} => dir[Current(d).name.file] = {} \/ call[d].phase = "checked"
    PROVE  ArtifactInv'
<1>1. /\ call' = [g \in Delegations |-> call'[g]] /\ call'[d] = c
      /\ \A g \in Delegations \ {d} : call'[g] = call[g]
  BY OneCall
<1>2. /\ WorkOK(d) /\ ResultsOK(d) /\ FilesOK(d) /\ LinesOK(d)
      /\ running \subseteq Delegations /\ \A e, g \in running : e = g
      /\ call[d].phase \in {"writing", "checked"}
  BY CallFacts
<1>3. Current(d)' = Current(d)
  BY <1>1 DEF Current
<1>4. call[d].target = {} =>
         /\ dir[Current(d).name.file] = {} \/ Current(d).name.file \in raced
         /\ \A p \in put : p[2] # Current(d).name.file
  <2>1. \A p \in put : dir[p[2]] # {}
    BY DEF ArtifactInv, PutOK
  <2> QED
    BY <2>1, <1>2 DEF WorkOK
<1>5. WorkOK(d)'
  BY <1>1, <1>2, <1>3, <1>4 DEF WorkOK, Whole, Truncated
<1>6. LinesOK(d)'
  <2>1. \A e : Lines(call[d], e, settings.legacy) => Lines(c, e, settings.legacy)
    BY DEF Lines
  <2> QED
    BY <1>1, <1>2, <2>1 DEF LinesOK
<1>7. call[d].files = {}
  BY <1>2 DEF FilesOK
<1>8. ResultsOK(d)' /\ FilesOK(d)' /\ SilentOK(d)'
  BY <1>1, <1>2, <1>7 DEF ResultsOK, FilesOK, SilentOK
<1>9. DelegationOK(d)'
  BY <1>5, <1>6, <1>8 DEF DelegationOK
<1>10. ASSUME NEW p \in put, p[1] = d PROVE PutOK(p)'
  <2>1. PutOK(p)
    BY DEF ArtifactInv
  <2>2. Whole(d)'
    BY <2>1, <1>10, <1>1 DEF PutOK, Whole, Truncated
  <2> QED
    BY <2>1, <2>2, <1>10, <1>1 DEF PutOK
<1>11. IsCall(call'[d]) /\ call'[d].phase \in WritePhases
  BY <1>1 DEF WritePhases
<1>12. d \in running' <=> call'[d].phase \in {"writing", "checked"}
  BY <1>1
<1> QED
  BY <1>1, <1>2, <1>9, <1>10, <1>11, <1>12, CallMoves

\* The content is written under a temporary name.
LEMMA WriteTmpInv ==
    ASSUME ArtifactInv, NEW d \in Delegations, WriteTmp(d) PROVE ArtifactInv'
<1>1. call = [g \in Delegations |-> call[g]] /\ IsCall(call[d]) /\ WorkOK(d)
  BY CallFacts
<1>2. PICK x : x = {Current(d).content}
  OBVIOUS
<1>3. PICK c : c = [call[d] EXCEPT !.tmp = x]
  OBVIOUS
<1>4. call' = [call EXCEPT ![d] = c]
  BY <1>1, <1>2, <1>3 DEF WriteTmp
<1>5. /\ IsCall(c) /\ c.phase = call[d].phase /\ c.tmp = x /\ c.results = call[d].results
      /\ c.work = call[d].work
      /\ c.mode = call[d].mode /\ c.target = call[d].target /\ c.emission = call[d].emission
      /\ c.signals = call[d].signals /\ c.files = call[d].files
  BY <1>1, <1>3 DEF IsCall
<1>6. /\ d \in running /\ call[d].phase = "checked"
      /\ UNCHANGED <<settings, dir, running, edits, put, edited, raced>>
  BY DEF WriteTmp
<1>7. DOMAIN call[d].work # {} /\ Current(d).name.file \in Places
  BY <1>1, <1>6 DEF WorkOK
<1> QED
  BY <1>2, <1>4, <1>5, <1>6, <1>7, FileChecked

\* The checks of a file, which fail or find its place free or its target pinned.
LEMMA CheckNextInv ==
    ASSUME ArtifactInv, NEW d \in Delegations, CheckNext(d) PROVE ArtifactInv'
<1>1. call = [g \in Delegations |-> call[g]] /\ IsCall(call[d]) /\ WorkOK(d)
  BY CallFacts
<1>2. /\ d \in running /\ call[d].phase = "writing" /\ DOMAIN call[d].work # {}
      /\ UNCHANGED <<settings, dir, running, edits, put, edited, raced>>
  BY DEF CheckNext
<1>3. call[d].tmp = {}
  BY <1>1, <1>2 DEF WorkOK
<1>4. CASE Blocked(d, Current(d))
  <2>1. PICK rs : rs = call[d].results \cup {Result(d, FALSE)}
    OBVIOUS
  <2>2. PICK w : w = Rest(call[d].work)
    OBVIOUS
  <2>3. PICK c : c = [call[d] EXCEPT !.results = rs, !.work = w]
    OBVIOUS
  <2>4. call' = [call EXCEPT ![d] = c]
    BY <1>1, <1>4, <2>1, <2>2, <2>3 DEF CheckNext
  <2>5. /\ IsCall(c) /\ c.phase = call[d].phase /\ c.tmp = call[d].tmp /\ c.results = rs /\ c.work = w
        /\ c.mode = call[d].mode /\ c.target = call[d].target /\ c.emission = call[d].emission
        /\ c.signals = call[d].signals /\ c.files = call[d].files
    BY <1>1, <2>3 DEF IsCall
  <2> QED
    BY <1>2, <1>3, <2>1, <2>2, <2>4, <2>5, FilePassed
<1>5. CASE ~ Blocked(d, Current(d))
  <2>1. PICK c : c = [call[d] EXCEPT !.phase = "checked"]
    OBVIOUS
  <2>2. call' = [call EXCEPT ![d] = c]
    BY <1>1, <1>5, <2>1 DEF CheckNext
  <2>3. /\ IsCall(c) /\ c.phase = "checked" /\ c.tmp = call[d].tmp /\ c.results = call[d].results
        /\ c.work = call[d].work
        /\ c.mode = call[d].mode /\ c.target = call[d].target /\ c.emission = call[d].emission
        /\ c.signals = call[d].signals /\ c.files = call[d].files
    BY <1>1, <2>1 DEF IsCall
  <2>4. /\ Current(d).name.file \in Places
        /\ call[d].target = {} => dir[Current(d).name.file] = {}
    BY <1>5, ArtifactAssumption DEF Blocked, isInsideCwd, forceOverwrite
  <2> QED
    BY <1>2, <1>3, <2>2, <2>3, <2>4, FileChecked
<1> QED
  BY <1>4, <1>5


\* The rename puts a whole content in its place: nothing was there, or the
\* target is pinned, or the user saved the file since the check.
LEMMA RenameInv ==
    ASSUME ArtifactInv, NEW d \in Delegations, Rename(d) PROVE ArtifactInv'
<1>1. /\ call = [g \in Delegations |-> call[g]] /\ IsCall(call[d]) /\ WorkOK(d)
      /\ dir = [g \in Places |-> dir[g]] /\ ResultsOK(d) /\ FilesOK(d) /\ LinesOK(d)
      /\ running \subseteq Delegations /\ \A e, g \in running : e = g
  BY CallFacts
<1>2. /\ d \in running /\ call[d].phase = "checked" /\ call[d].tmp # {}
      /\ UNCHANGED <<settings, running, edits, edited, raced>>
  BY DEF Rename
<1>3. DOMAIN call[d].work # {} /\ Whole(d) /\ call[d].files = {}
  BY <1>1, <1>2 DEF WorkOK, FilesOK
<1>4. PICK rs : rs = call[d].results \cup {Result(d, TRUE)}
  OBVIOUS
<1>5. PICK w : w = Rest(call[d].work)
  OBVIOUS
<1>6. PICK c : c = [call[d] EXCEPT !.phase = "writing", !.tmp = {}, !.results = rs, !.work = w]
  OBVIOUS
<1>7. call' = [call EXCEPT ![d] = c]
  BY <1>1, <1>4, <1>5, <1>6 DEF Rename
<1>8. /\ IsCall(c) /\ c.phase = "writing" /\ c.tmp = {} /\ c.results = rs /\ c.work = w
      /\ c.mode = call[d].mode /\ c.target = call[d].target /\ c.emission = call[d].emission
      /\ c.signals = call[d].signals /\ c.files = call[d].files
  BY <1>1, <1>6 DEF IsCall
<1>9. /\ call' = [g \in Delegations |-> call'[g]] /\ call'[d] = c
      /\ \A g \in Delegations \ {d} : call'[g] = call[g]
  BY <1>7, OneCall
<1>10. PICK f : f = Current(d).name.file
  OBVIOUS
<1>11. PICK t : t = Current(d).content
  OBVIOUS
<1>12. PICK old : old = dir[f]
  OBVIOUS
<1>13. PICK new : new = <<d, f, {t}, old>>
  OBVIOUS
<1>14. /\ f \in Places /\ call[d].tmp = {t}
       /\ call[d].target = {} => (old = {} \/ f \in raced) /\ \A p \in put : p[2] # f
  BY <1>1, <1>2, <1>10, <1>11, <1>12 DEF WorkOK
<1>15. put' = put \cup {new} /\ dir' = [dir EXCEPT ![f] = {t}]
  BY <1>10, <1>11, <1>12, <1>13, <1>14 DEF Rename
<1>16. dir' = [g \in Places |-> dir'[g]] /\ dir'[f] = {t} /\ \A g \in Places \ {f} : dir'[g] = dir[g]
  BY <1>1, <1>14, <1>15
<1>17. new[1] = d /\ new[2] = f /\ new[3] = {t} /\ new[4] = old
  BY <1>13
<1>18. DOMAIN w \subseteq DOMAIN call[d].work /\ (call[d].target # {} => DOMAIN w = {})
  <2>1. /\ DOMAIN w = DOMAIN call[d].work \ {First(call[d].work)}
        /\ First(call[d].work) \in DOMAIN call[d].work
    BY <1>3, <1>5, NextFile
  <2> QED
    BY <2>1, <1>1 DEF WorkOK
<1>19. PICK res : res = Result(d, TRUE)
  OBVIOUS
<1>20. res.ok = TRUE /\ res.name.file = f /\ res.content = t
  BY <1>10, <1>11, <1>19 DEF Result
<1>21. \A p \in put : PutOK(p)
  BY DEF ArtifactInv
<1>22. \A p \in put : p[1] = d => call[d].target = {} /\ p[2] # f
  BY <1>3, <1>14, <1>21 DEF PutOK
<1>23. CallsOK'
  <2>1. CallsOK
    BY DEF ArtifactInv
  <2>2. \A g \in Delegations : IsCall(call'[g]) /\ call'[g].phase \in WritePhases
    BY <2>1, <1>8, <1>9 DEF CallsOK, WritePhases
  <2>3. \A g \in Delegations : g \in running' <=> call'[g].phase \in {"writing", "checked"}
    BY <2>1, <1>2, <1>8, <1>9 DEF CallsOK
  <2> QED
    BY <2>1, <2>2, <2>3, <1>2, <1>9, <1>16 DEF CallsOK, IsCall
<1>24. DirOK'
  <2>1. DirOK
    BY DEF ArtifactInv
  <2> QED
    BY <2>1, <1>15, <1>16, <1>17 DEF DirOK
<1>25. ASSUME NEW e \in Delegations, e # d PROVE DelegationOK(e)'
  <2>1. DelegationOK(e) /\ e \notin running /\ call[e].phase \notin {"writing", "checked"}
    BY <1>1, <1>2, <1>25 DEF ArtifactInv, CallsOK
  <2>2. call'[e] = call[e] /\ e \notin running'
    BY <1>2, <1>9, <1>25, <2>1
  <2>3. WorkOK(e)'
    BY <2>1, <2>2 DEF DelegationOK, WorkOK
  <2>4. ResultsOK(e)' /\ LinesOK(e)'
    BY <2>1, <2>2 DEF DelegationOK, WorkOK, ResultsOK, LinesOK
  <2>5. SilentOK(e)'
    BY <2>1, <2>2, <1>2 DEF DelegationOK, SilentOK
  <2>6. FilesOK(e)'
    <3>1. ASSUME NEW x \in call[e].files
          PROVE  /\ call[e].phase = "done"
                 /\ \E p \in put' : p[1] = e /\ p[2] = x.file
                 /\ \/ dir'[x.file] = x.hash
                    \/ x.file \in edited'
                    \/ \E p \in put' : p[1] # e /\ p[2] = x.file /\ call'[p[1]].target # {}
      <4>1. /\ call[e].phase = "done"
            /\ \E p \in put : p[1] = e /\ p[2] = x.file
            /\ \/ dir[x.file] = x.hash
               \/ x.file \in edited
               \/ \E p \in put : p[1] # e /\ p[2] = x.file /\ call[p[1]].target # {}
        BY <2>1, <3>1 DEF DelegationOK, FilesOK
      <4>2. x.file \in Places
        BY <4>1, <1>21 DEF PutOK
      <4>3. \A p \in put : p[1] \in Delegations /\ call'[p[1]].target = call[p[1]].target
        BY <1>8, <1>9, <1>21 DEF PutOK
      <4>4. put \subseteq put' /\ new \in put'
        BY <1>15
      <4>5. CASE x.file = f
        <5>1. call[d].target # {}
          BY <4>1, <4>5, <1>14
        <5>2. new[1] # e /\ new[2] = x.file /\ call'[new[1]].target # {}
          BY <5>1, <4>5, <1>8, <1>9, <1>17, <1>25
        <5> QED
          BY <5>2, <4>1, <4>4
      <4>6. CASE x.file # f
        <5>1. dir'[x.file] = dir[x.file] /\ edited' = edited
          BY <4>2, <4>6, <1>2, <1>16
        <5> QED
          BY <5>1, <4>1, <4>3, <4>4
      <4> QED
        BY <4>5, <4>6
    <3> QED
      BY <3>1, <2>2 DEF FilesOK
  <2> QED
    BY <2>3, <2>4, <2>5, <2>6 DEF DelegationOK
<1>26. DelegationOK(d)'
  <2>1. WorkOK(d)'
    BY <1>1, <1>2, <1>3, <1>8, <1>9, <1>18 DEF WorkOK, Whole, Truncated
  <2>2. LinesOK(d)'
    <3>1. \A e : Lines(call[d], e, settings.legacy) => Lines(c, e, settings.legacy)
      BY <1>3, <1>4, <1>5, <1>8, FileDone
    <3> QED
      BY <3>1, <1>1, <1>2, <1>8, <1>9 DEF LinesOK
  <2>3. FilesOK(d)' /\ SilentOK(d)'
    BY <1>3, <1>8, <1>9 DEF FilesOK, SilentOK
  <2>4. ASSUME NEW r \in rs, r.ok
        PROVE  /\ \E p \in put' : p[1] = d /\ p[2] = r.name.file
               /\ dir'[r.name.file] = {r.content} \/ r.name.file \in edited'
    <3>1. CASE r = res
      BY <3>1, <1>15, <1>16, <1>17, <1>20
    <3>2. CASE r # res
      <4>1. r \in call[d].results
        BY <3>2, <2>4, <1>4, <1>19
      <4>2. PICK p \in put : p[1] = d /\ p[2] = r.name.file
        BY <4>1, <2>4, <1>1 DEF ResultsOK
      <4>3. p[2] \in Places /\ p[2] # f
        BY <4>2, <1>21, <1>22 DEF PutOK
      <4>4. dir'[r.name.file] = dir[r.name.file]
        BY <4>2, <4>3, <1>16
      <4> QED
        BY <4>1, <4>2, <4>4, <2>4, <1>1, <1>2, <1>15 DEF ResultsOK
    <3> QED
      BY <3>1, <3>2
  <2>5. ResultsOK(d)'
    BY <2>4, <1>8, <1>9 DEF ResultsOK
  <2> QED
    BY <2>1, <2>2, <2>3, <2>5 DEF DelegationOK
<1>27. ASSUME NEW p \in put PROVE PutOK(p)'
  <2>1. PutOK(p)
    BY <1>21
  <2>2. CASE p[1] = d
    <3>1. call[d].target = {} /\ p[2] # f /\ dir'[p[2]] = dir[p[2]] /\ p[2] \in Places
      BY <2>1, <2>2, <1>16, <1>22 DEF PutOK
    <3>2. Whole(d)'
      BY <1>3, <1>8, <1>9 DEF Whole, Truncated
    <3>3. call[d].results \subseteq rs
      BY <1>4
    <3> QED
      BY <2>1, <2>2, <3>1, <3>2, <3>3, <1>2, <1>8, <1>9 DEF PutOK
  <2>3. CASE p[1] # d
    <3>1. /\ p[1] \in Delegations /\ p[1] \notin running /\ p[1] \notin running'
          /\ call'[p[1]] = call[p[1]]
      BY <2>1, <2>3, <1>1, <1>2, <1>9 DEF PutOK
    <3>2. dir'[p[2]] # {} /\ p[2] \in Places
      BY <2>1, <1>16 DEF PutOK
    <3>3. Whole(p[1])'
      BY <2>1, <3>1 DEF PutOK, Whole, Truncated
    <3> QED
      BY <2>1, <3>1, <3>2, <3>3, <1>2 DEF PutOK, Reports
  <2> QED
    BY <2>2, <2>3
<1>28. PutOK(new)'
  <2>1. Whole(d)'
    BY <1>3, <1>8, <1>9 DEF Whole, Truncated
  <2>2. old # {} => c.target # {} \/ f \in raced'
    BY <1>2, <1>8, <1>14
  <2>3. \E r \in rs : r.ok /\ r.name.file = f /\ {r.content} = {t}
    BY <1>4, <1>19, <1>20
  <2>4. dir'[f] # {} /\ dir'[f] \in {{t}, {UserContent}}
    BY <1>16
  <2> QED
    BY <2>1, <2>2, <2>3, <2>4, <1>8, <1>9, <1>14, <1>17, <1>18 DEF PutOK
<1> QED
  BY <1>15, <1>23, <1>24, <1>25, <1>26, <1>27, <1>28 DEF ArtifactInv

\* The report names what was written, with the hash of what is there but for
\* the user, and signals what was not.
LEMMA ReportInv ==
    ASSUME ArtifactInv, NEW d \in Delegations, Report(d) PROVE ArtifactInv'
<1>1. /\ call = [g \in Delegations |-> call[g]] /\ IsCall(call[d]) /\ WorkOK(d)
      /\ ResultsOK(d) /\ LinesOK(d) /\ running \subseteq Delegations /\ \A e, g \in running : e = g
  BY CallFacts
<1>2. /\ d \in running /\ call[d].phase = "writing" /\ DOMAIN call[d].work = {}
      /\ running' = {} /\ UNCHANGED <<settings, dir, edits, put, edited, raced>>
  BY DEF Report
<1>3. PICK ok : ok = {r \in call[d].results : r.ok}
  OBVIOUS
<1>4. PICK fs : fs = {[file |-> r.name.file, hash |-> ReportedHash(d, r)] : r \in ok}
  OBVIOUS
<1>5. PICK sg : sg = call[d].signals \cup {"artifact.emitted"}
                        \cup {x \in {"artifact.blocked"} : ok # call[d].results}
  OBVIOUS
<1>6. PICK c : c = [call[d] EXCEPT !.phase = "done", !.results = {}, !.files = fs, !.signals = sg]
  OBVIOUS
<1>7. call' = [call EXCEPT ![d] = c]
  BY <1>1, <1>3, <1>4, <1>5, <1>6 DEF Report
<1>8. /\ IsCall(c) /\ c.phase = "done" /\ c.results = {} /\ c.files = fs /\ c.signals = sg
      /\ c.mode = call[d].mode /\ c.target = call[d].target /\ c.emission = call[d].emission
      /\ c.work = call[d].work /\ c.tmp = call[d].tmp
  BY <1>1, <1>6 DEF IsCall
<1>9. /\ call' = [g \in Delegations |-> call'[g]] /\ call'[d] = c
      /\ \A g \in Delegations \ {d} : call'[g] = call[g]
  BY <1>7, OneCall
<1>10. WorkOK(d)' /\ ResultsOK(d)' /\ LinesOK(d)'
  BY <1>1, <1>2, <1>8, <1>9 DEF WorkOK, ResultsOK, LinesOK
<1>11. FilesOK(d)'
  <2>1. ASSUME NEW x \in fs
        PROVE  /\ \E p \in put : p[1] = d /\ p[2] = x.file
               /\ dir[x.file] = x.hash \/ x.file \in edited
    <3>1. PICK r \in ok : x = [file |-> r.name.file, hash |-> ReportedHash(d, r)]
      BY <2>1, <1>4
    <3>2. x.file = r.name.file /\ x.hash = ReportedHash(d, r)
      BY <3>1
    <3>3. /\ \E p \in put : p[1] = d /\ p[2] = r.name.file
          /\ dir[r.name.file] = {r.content} \/ r.name.file \in edited
      BY <1>1, <1>3 DEF ResultsOK
    <3> QED
      BY <3>2, <3>3 DEF ReportedHash
  <2> QED
    BY <2>1, <1>2, <1>8, <1>9 DEF FilesOK
<1>12. SilentOK(d)'
  <2>1. ASSUME call[d].mode = "artifact", NEW e \in call[d].emission, NEW i \in DOMAIN e.lines,
               e.lines[i].shape = "file"
        PROVE  \/ \E x \in fs : x.file = e.lines[i].name.file
               \/ sg \cap {"artifact.blocked", "artifact.unterminated", "artifact.truncated"} # {}
               \/ \A j \in DOMAIN e.lines : ~ Taken(e.lines[j], settings.legacy)
    <3>1. Lines(call[d], e, settings.legacy)
      BY <2>1, <1>1, <1>2 DEF LinesOK
    <3>2. CASE call[d].signals \cap {"artifact.unterminated", "artifact.truncated"} # {}
      BY <3>2, <1>5
    <3>3. CASE \A j \in DOMAIN e.lines : ~ Taken(e.lines[j], settings.legacy)
      BY <3>3
    <3>4. CASE \E r \in call[d].results : r.name = e.lines[i].name
      <4>1. PICK r \in call[d].results : r.name = e.lines[i].name
        BY <3>4
      <4>2. CASE r.ok
        <5>1. r \in ok
          BY <4>2, <1>3
        <5>2. PICK x : x = [file |-> r.name.file, hash |-> ReportedHash(d, r)]
          OBVIOUS
        <5>3. x \in fs /\ x.file = r.name.file
          BY <5>1, <5>2, <1>4
        <5> QED
          BY <5>3, <4>1
      <4>3. CASE ~ r.ok
        <5>1. ok # call[d].results
          BY <4>3, <1>3
        <5>2. "artifact.blocked" \in sg
          BY <5>1, <1>5
        <5> QED
          BY <5>2
      <4> QED
        BY <4>2, <4>3
    <3> QED
      BY <3>1, <3>2, <3>3, <3>4, <2>1, <1>2 DEF Lines
  <2>2. settings' = settings
    BY <1>2
  <2> QED
    BY <2>1, <2>2, <1>8, <1>9 DEF SilentOK
<1>13. DelegationOK(d)'
  BY <1>10, <1>11, <1>12 DEF DelegationOK
<1>14. ASSUME NEW p \in put, p[1] = d PROVE PutOK(p)'
  <2>1. PutOK(p)
    BY DEF ArtifactInv
  <2>2. Whole(d)'
    <3>1. "artifact.unterminated" \notin sg
      BY <2>1, <1>14, <1>5 DEF PutOK, Whole
    <3> QED
      BY <3>1, <2>1, <1>14, <1>8, <1>9 DEF PutOK, Whole, Truncated
  <2>3. PICK r \in call[d].results : r.ok /\ r.name.file = p[2] /\ {r.content} = p[3]
    BY <2>1, <1>14, <1>2 DEF PutOK
  <2>4. PICK h : h = ReportedHash(d, r)
    OBVIOUS
  <2>5. [file |-> p[2], hash |-> h] \in fs
    BY <2>3, <2>4, <1>3, <1>4
  <2>6. h \in {p[3], {UserContent}}
    BY <2>1, <2>3, <2>4, <1>2, <1>14 DEF PutOK, ReportedHash
  <2>7. Reports(d, p[2], h)'
    BY <2>5, <1>8, <1>9 DEF Reports
  <2> QED
    BY <2>1, <2>2, <2>6, <2>7, <1>2, <1>8, <1>9, <1>14 DEF PutOK
<1>15. IsCall(call'[d]) /\ call'[d].phase \in WritePhases
  BY <1>8, <1>9 DEF WritePhases
<1>16. /\ running' \subseteq Delegations /\ \A e, g \in running' : e = g
       /\ d \in running' <=> call'[d].phase \in {"writing", "checked"}
       /\ \A e \in Delegations \ {d} : e \in running' <=> e \in running
       /\ call'[d].target = call[d].target
  BY <1>1, <1>2, <1>8, <1>9
<1> QED
  BY <1>2, <1>9, <1>13, <1>14, <1>15, <1>16, CallMoves


\* A process that dies leaves what it put, and reports nothing.
LEMMA ProcessDiesInv ==
    ASSUME ArtifactInv, ProcessDies PROVE ArtifactInv'
<1> DEFINE Live == {"asked", "asked again", "writing", "checked"}
           Gone(d) == [call[d] EXCEPT !.phase = "dead", !.tmp = {}, !.work = << >>, !.results = {}]
<1>1. CallsOK /\ DirOK /\ (\A d \in Delegations : DelegationOK(d)) /\ \A p \in put : PutOK(p)
  BY DEF ArtifactInv
<1>2. /\ call' = [d \in Delegations |-> IF call[d].phase \in Live THEN Gone(d) ELSE call[d]]
      /\ running' = {} /\ UNCHANGED <<settings, dir, edits, put, edited, raced>>
  BY DEF ProcessDies
<1>3. \A d \in Delegations : call'[d] = IF call[d].phase \in Live THEN Gone(d) ELSE call[d]
  BY <1>2
<1>4. \A d \in Delegations : IsCall(call[d])
  BY <1>1 DEF CallsOK
<1>5. ASSUME NEW d \in Delegations
      PROVE  /\ IsCall(Gone(d)) /\ Gone(d).phase = "dead" /\ Gone(d).tmp = {} /\ Gone(d).results = {}
             /\ Gone(d).work = << >> /\ Gone(d).mode = call[d].mode /\ Gone(d).target = call[d].target
             /\ Gone(d).emission = call[d].emission /\ Gone(d).signals = call[d].signals
             /\ Gone(d).files = call[d].files
  <2>1. IsCall(call[d])
    BY <1>4
  <2>2. PICK c : c = Gone(d)
    OBVIOUS
  <2>3. /\ IsCall(c) /\ c.phase = "dead" /\ c.tmp = {} /\ c.results = {}
        /\ c.work = << >> /\ c.mode = call[d].mode /\ c.target = call[d].target
        /\ c.emission = call[d].emission /\ c.signals = call[d].signals /\ c.files = call[d].files
    BY <2>1, <2>2 DEF IsCall
  <2> QED
    BY <2>2, <2>3
<1>6. \A d \in Delegations : d \in running => call[d].phase \in Live
  BY <1>1 DEF CallsOK
<1> HIDE DEF Gone
<1>7. ASSUME NEW d \in Delegations
      PROVE  /\ IsCall(call'[d]) /\ call'[d].phase \in WritePhases \ {"writing", "checked"}
             /\ DOMAIN call'[d].work = {} /\ call'[d].results = {} /\ call'[d].tmp = {}
             /\ call'[d].target = call[d].target /\ call'[d].mode = call[d].mode
             /\ call'[d].emission = call[d].emission /\ call'[d].signals = call[d].signals
             /\ call'[d].files = call[d].files
             /\ call'[d].phase = call[d].phase \/ (call'[d].phase = "dead" /\ call[d].phase \in Live)
  <2>1. CASE call[d].phase \in Live
    BY <2>1, <1>3, <1>5, NoPositions DEF WritePhases
  <2>2. CASE call[d].phase \notin Live
    <3>1. call'[d] = call[d] /\ d \notin running /\ DelegationOK(d) /\ call[d].phase \in WritePhases
      BY <2>2, <1>1, <1>3, <1>6 DEF CallsOK
    <3> QED
      BY <3>1, <2>2, <1>4 DEF DelegationOK, WorkOK
  <2> QED
    BY <2>1, <2>2
<1>8. CallsOK'
  <2>1. call' = [d \in Delegations |-> call'[d]]
    BY <1>2
  <2>2. \A d \in Delegations : IsCall(call'[d]) /\ call'[d].phase \in WritePhases
                               /\ call'[d].phase \notin {"writing", "checked"}
    BY <1>7
  <2> QED
    BY <2>1, <2>2, <1>1, <1>2 DEF CallsOK, IsCall
<1>9. ASSUME NEW d \in Delegations PROVE DelegationOK(d)'
  <2>1. DelegationOK(d)
    BY <1>1
  <2>2. WorkOK(d)' /\ ResultsOK(d)' /\ LinesOK(d)'
    BY <2>1, <1>2, <1>7 DEF DelegationOK, WorkOK, ResultsOK, LinesOK
  <2>3. SilentOK(d)'
    <3>1. /\ call'[d].mode = call[d].mode /\ call'[d].emission = call[d].emission
          /\ call'[d].signals = call[d].signals /\ call'[d].files = call[d].files
          /\ call'[d].phase = "done" => call[d].phase = "done"
      BY <1>7
    <3>2. settings' = settings
      BY <1>2
    <3> QED
      BY <3>1, <3>2, <2>1 DEF DelegationOK, SilentOK
  <2>4. FilesOK(d)'
    <3>1. \A p \in put : p[1] \in Delegations /\ call'[p[1]].target = call[p[1]].target
      BY <1>1, <1>7 DEF PutOK
    <3>2. \A x \in call[d].files : call'[d].phase = "done"
      BY <2>1, <1>7 DEF DelegationOK, FilesOK
    <3>3. call'[d].files = call[d].files /\ put' = put /\ dir' = dir /\ edited' = edited
      BY <1>2, <1>7
    <3> QED
      BY <3>1, <3>2, <3>3, <2>1 DEF DelegationOK, FilesOK
  <2> QED
    BY <2>2, <2>3, <2>4 DEF DelegationOK
<1>10. ASSUME NEW p \in put PROVE PutOK(p)'
  <2>1. PutOK(p) /\ p[1] \in Delegations
    BY <1>1 DEF PutOK
  <2>2. Whole(p[1])'
    BY <2>1, <1>7 DEF PutOK, Whole, Truncated
  <2>3. call'[p[1]].phase = "done" => call[p[1]].phase = "done"
    BY <2>1, <1>7
  <2>4. \A h : Reports(p[1], p[2], h)' <=> Reports(p[1], p[2], h)
    BY <2>1, <1>7 DEF Reports
  <2>5. call'[p[1]].phase \in {"writing", "checked", "done", "dead"}
    BY <2>1, <1>7 DEF PutOK
  <2> QED
    BY <2>1, <2>2, <2>3, <2>4, <2>5, <1>2, <1>7 DEF PutOK
<1>11. DirOK'
  BY <1>1, <1>2 DEF DirOK
<1> QED
  BY <1>2, <1>8, <1>9, <1>10, <1>11 DEF ArtifactInv

\* The user saves a file; the histories remember it.
LEMMA UserSavesInv ==
    ASSUME ArtifactInv, NEW f \in Places, UserSaves(f) PROVE ArtifactInv'
<1>1. CallsOK /\ DirOK /\ (\A d \in Delegations : DelegationOK(d)) /\ \A p \in put : PutOK(p)
  BY DEF ArtifactInv
<1>2. /\ edits < MaxUserEdits /\ edits' = edits + 1 /\ UNCHANGED <<settings, call, running, put>>
      /\ dir' = [dir EXCEPT ![f] = {UserContent}] /\ edited' = edited \cup {f}
      /\ raced' = raced \cup {g \in {f} : \E d \in running : call[d].phase = "checked"
                                               /\ Current(d).name.file = g}
  BY DEF UserSaves
<1>3. /\ dir' = [g \in Places |-> dir'[g]] /\ dir'[f] = {UserContent}
      /\ \A g \in Places \ {f} : dir'[g] = dir[g]
  <2>1. dir = [g \in Places |-> dir[g]]
    BY <1>1 DEF CallsOK
  <2> QED
    BY <2>1, <1>2
<1>4. edited \subseteq edited' /\ raced \subseteq raced' /\ f \in edited'
  BY <1>2
<1>5. CallsOK'
  <2>1. edits' \in 0..MaxUserEdits
    BY <1>1, <1>2, ArtifactAssumption DEF CallsOK
  <2>2. edited' \subseteq Places /\ raced' \subseteq edited'
    BY <1>1, <1>2 DEF CallsOK
  <2> QED
    BY <2>1, <2>2, <1>1, <1>2, <1>3 DEF CallsOK, IsCall
<1>6. DirOK'
  BY <1>1, <1>2, <1>3 DEF DirOK
<1>7. ASSUME NEW d \in Delegations PROVE DelegationOK(d)'
  <2>1. DelegationOK(d) /\ call' = call /\ put' = put /\ running' = running /\ settings' = settings
    BY <1>1, <1>2
  <2>2. Current(d)' = Current(d)
    BY <2>1 DEF Current
  <2>3. ASSUME call[d].phase = "checked", Current(d).name.file = f PROVE f \in raced'
    BY <1>1, <1>2, <2>3 DEF CallsOK
  <2>4. WorkOK(d)'
    BY <2>1, <2>2, <2>3, <1>3, <1>4 DEF DelegationOK, WorkOK, Whole, Truncated
  <2>5. \A r \in call[d].results : r.ok => r.name.file \in Places
    BY <2>1, <1>1 DEF DelegationOK, ResultsOK, PutOK
  <2>6. ResultsOK(d)'
    BY <2>1, <2>5, <1>3, <1>4 DEF DelegationOK, ResultsOK
  <2>7. \A x \in call[d].files : x.file \in Places
    BY <2>1, <1>1 DEF DelegationOK, FilesOK, PutOK
  <2>8. FilesOK(d)'
    BY <2>1, <2>7, <1>3, <1>4 DEF DelegationOK, FilesOK
  <2>9. LinesOK(d)' /\ SilentOK(d)'
    BY <2>1 DEF DelegationOK, LinesOK, SilentOK
  <2> QED
    BY <2>4, <2>6, <2>8, <2>9 DEF DelegationOK
<1>8. ASSUME NEW p \in put PROVE PutOK(p)'
  <2>1. PutOK(p) /\ call' = call /\ running' = running
    BY <1>1, <1>2
  <2>2. p[2] \in Places /\ (dir'[p[2]] = dir[p[2]] \/ dir'[p[2]] = {UserContent})
    BY <2>1, <1>3 DEF PutOK
  <2> QED
    BY <2>1, <2>2, <1>4 DEF PutOK, Whole, Truncated, Reports
<1> QED
  BY <1>2, <1>5, <1>6, <1>7, <1>8 DEF ArtifactInv

\* Every step keeps the invariant.
LEMMA ArtifactNextInv ==
    ASSUME ArtifactInv, [ArtifactNext]_artifactVars PROVE ArtifactInv'
<1>1. ASSUME NEW d \in Delegations, Answered(d) PROVE ArtifactInv'
  <2>1. /\ running = {} /\ call[d].phase \in {"asked", "asked again"}
        /\ UNCHANGED <<settings, dir, edits, put, edited, raced>>
    BY <1>1 DEF Answered
  <2>2. PICK e \in Emissions[call[d].mode] :
           \/ ContractMissing(d, e) \/ ContractAnswered(d, e)
           \/ ArtifactsAnswered(d, e) \/ BlocksAnswered(d, e)
    BY <1>1 DEF Answered
  <2>3. CASE ContractMissing(d, e) \/ ContractAnswered(d, e)
    BY <2>1, <2>3, ContractInv
  <2>4. CASE ArtifactsAnswered(d, e)
    BY <2>1, <2>2, <2>4, ArtifactsAnsweredInv
  <2>5. CASE BlocksAnswered(d, e)
    BY <2>1, <2>2, <2>5, BlocksAnsweredInv
  <2> QED
    BY <2>2, <2>3, <2>4, <2>5
<1>2. ASSUME NEW d \in Delegations,
             \/ Delegate(d) \/ ExecuteFails(d) \/ CheckNext(d) \/ WriteTmp(d)
             \/ WriteFails(d) \/ Rename(d) \/ Report(d)
      PROVE  ArtifactInv'
  BY <1>2, DelegateInv, ExecuteFailsInv, CheckNextInv, WriteTmpInv, WriteFailsInv, RenameInv, ReportInv
<1>3. CASE UNCHANGED artifactVars
  <2>1. /\ settings' = settings /\ dir' = dir /\ call' = call /\ running' = running /\ edits' = edits
        /\ put' = put /\ edited' = edited /\ raced' = raced
    BY <1>3 DEF artifactVars
  <2>2. CallsOK' /\ DirOK'
    BY <2>1 DEF ArtifactInv, CallsOK, DirOK, IsCall
  <2>3. ASSUME NEW d \in Delegations PROVE DelegationOK(d)'
    <3>1. DelegationOK(d) /\ Current(d)' = Current(d)
      BY <2>1 DEF ArtifactInv, Current
    <3> QED
      BY <3>1, <2>1 DEF DelegationOK, WorkOK, Whole, Truncated, ResultsOK, FilesOK, LinesOK, SilentOK
  <2>4. ASSUME NEW p \in put PROVE PutOK(p)'
    <3>1. PutOK(p)
      BY DEF ArtifactInv
    <3> QED
      BY <3>1, <2>1 DEF PutOK, Whole, Truncated, Reports
  <2> QED
    BY <2>1, <2>2, <2>3, <2>4 DEF ArtifactInv
<1> QED
  BY <1>1, <1>2, <1>3, ProcessDiesInv, UserSavesInv DEF ArtifactNext

\* What the files and the delegations hold has its type: one delegation at
\* most writes at a time (modes.ts, path-safety.ts).
THEOREM ArtifactTypeCorrect == ArtifactSpec => []ArtifactTypeOK
<1>1. ArtifactInit => ArtifactInv
  BY ArtifactInitInv
<1>2. ArtifactInv /\ [ArtifactNext]_artifactVars => ArtifactInv'
  BY ArtifactNextInv
<1>3. ArtifactInv => ArtifactTypeOK
  BY ArtifactInvImplies
<1> QED
  BY <1>1, <1>2, <1>3, PTL DEF ArtifactSpec

\* What delegations write and what they report agree, for every directory,
\* profile, set of answers and number of delegations that share the directory
\* (path-safety.ts writeArtifacts, modes.ts persistCodeBlocks).
THEOREM WritesSound == ArtifactSpec => []WritesAccounted
<1>1. ArtifactInit => ArtifactInv
  BY ArtifactInitInv
<1>2. ArtifactInv /\ [ArtifactNext]_artifactVars => ArtifactInv'
  BY ArtifactNextInv
<1>3. ArtifactInv => WritesAccounted
  BY ArtifactInvImplies
<1> QED
  BY <1>1, <1>2, <1>3, PTL DEF ArtifactSpec
-----------------------------------------------------------------------------
(* The order of a plan *)

\* The rounds of the sort are what their recursion says.
LEMMA RoundsAre ==
    ASSUME NEW nodes, Len(nodes) \in Nat
    PROVE  Rounds(nodes) =
             [k \in 0..Len(nodes) |-> IF k = 0 THEN << >> ELSE Take(nodes, Rounds(nodes)[k - 1])]
<1> DEFINE Good(n, f) == f = [k \in 0..n |-> IF k = 0 THEN << >> ELSE Take(nodes, f[k - 1])]
           Bad == {n \in Nat : ~ \E f : Good(n, f)}
<1>1. Bad = {}
  <2>1. SUFFICES ASSUME Bad # {} PROVE FALSE
    OBVIOUS
  <2>2. PICK n \in Bad : \A m \in Bad : n <= m
    BY <2>1, Smallest
  <2>3. n \in Nat /\ ~ \E f : Good(n, f)
    BY <2>2
  <2>4. CASE n = 0
    <3>1. PICK f : f = [k \in 0..0 |-> << >>]
      OBVIOUS
    <3>2. Good(0, f)
      BY <3>1
    <3> QED
      BY <3>2, <2>3, <2>4
  <2>5. CASE n # 0
    <3>1. n - 1 \in Nat /\ n - 1 \notin Bad
      <4>1. n - 1 \in Nat /\ ~ (n <= n - 1)
        BY <2>3, <2>5
      <4> HIDE DEF Bad
      <4> QED
        BY <4>1, <2>2
    <3>2. PICK f : Good(n - 1, f)
      BY <3>1
    <3>3. PICK g : g = [k \in 0..n |-> IF k = n THEN Take(nodes, f[n - 1]) ELSE f[k]]
      OBVIOUS
    <3>4. \A k \in 0..(n - 1) : f[k] = IF k = 0 THEN << >> ELSE Take(nodes, f[k - 1])
      BY <3>2
    <3>5. \A k \in 0..(n - 1) : g[k] = f[k]
      BY <3>3, <2>3
    <3>6. g[n] = Take(nodes, f[n - 1])
      BY <3>3, <2>3
    <3>7. \A k \in 0..n : g[k] = IF k = 0 THEN << >> ELSE Take(nodes, g[k - 1])
      <4>1. ASSUME NEW k \in 0..n PROVE g[k] = IF k = 0 THEN << >> ELSE Take(nodes, g[k - 1])
        <5>1. CASE k = n
          <6>1. n - 1 \in 0..(n - 1)
            BY <3>1
          <6> QED
            BY <5>1, <6>1, <3>5, <3>6, <2>5
        <5>2. CASE k # n
          <6>1. k \in 0..(n - 1) /\ (k # 0 => k - 1 \in 0..(n - 1))
            BY <5>2, <4>1, <2>3
          <6> QED
            BY <6>1, <3>4, <3>5
        <5> QED
          BY <5>1, <5>2
      <4> QED
        BY <4>1
    <3>8. Good(n, g)
      BY <3>3, <3>7
    <3> QED
      BY <3>8, <2>3
  <2> QED
    BY <2>4, <2>5
<1>2. \E f : Good(Len(nodes), f)
  BY <1>1
<1> QED
  BY <1>2 DEF Rounds

\* One round after the other.
LEMMA RoundSteps ==
    ASSUME NEW nodes, Len(nodes) \in Nat
    PROVE  \A m \in 0..Len(nodes) :
              Rounds(nodes)[m] = IF m = 0 THEN << >> ELSE Take(nodes, Rounds(nodes)[m - 1])
<1>1. PICK R : R = Rounds(nodes)
  OBVIOUS
<1>2. R = [m \in 0..Len(nodes) |-> IF m = 0 THEN << >> ELSE Take(nodes, R[m - 1])]
  BY <1>1, RoundsAre
<1>3. \A m \in 0..Len(nodes) : R[m] = IF m = 0 THEN << >> ELSE Take(nodes, R[m - 1])
  BY <1>2
<1> QED
  BY <1>1, <1>3

\* What has been taken: different nodes, each after its dependencies.
SortOK(nodes, taken) ==
    /\ taken \in Seq(DOMAIN nodes)
    /\ \A i, j \in DOMAIN taken : taken[i] = taken[j] => i = j
    /\ \A k \in DOMAIN taken :
         dependencies(nodes[taken[k]]) \subseteq {nodes[taken[j]].id : j \in 1..(k - 1)}

\* The front of a queue is in the queue.
LEMMA FrontQueued ==
    ASSUME NEW nodes, DOMAIN nodes \subseteq Nat, NEW taken, Len(taken) \in Nat,
           Queue(nodes, taken) # {}
    PROVE  Front(nodes, taken) \in Queue(nodes, taken)
<1> DEFINE Q == Queue(nodes, taken)
           E(i) == Entered(nodes, taken, i)
<1>1. ASSUME NEW i PROVE E(i) \in Nat
  <2>1. IsFiniteSet(0..Len(taken))
    BY FS_Interval
  <2>2. PICK S : S = {k \in 0..Len(taken) : i \notin Free(nodes, SubSeq(taken, 1, k))}
    OBVIOUS
  <2>3. S \in SUBSET (0..Len(taken))
    BY <2>2
  <2>4. Cardinality(S) \in Nat
    BY <2>1, <2>3, FS_Subset, FS_CardinalityType
  <2> QED
    BY <2>2, <2>4 DEF Entered
<1>2. Q \subseteq Nat
  BY DEF Queue, Free
<1> HIDE DEF Q, E
<1>3. PICK T : T = {E(i) : i \in Q}
  OBVIOUS
<1>4. T \subseteq Nat /\ T # {}
  BY <1>1, <1>3 DEF Q
<1>5. PICK e \in T : \A x \in T : e <= x
  BY <1>4, Smallest
<1>6. PICK P : P = {i \in Q : E(i) = e}
  OBVIOUS
<1>7. P \subseteq Nat /\ P # {}
  BY <1>2, <1>3, <1>5, <1>6
<1>8. PICK i \in P : \A j \in P : i <= j
  BY <1>7, Smallest
<1>9. ASSUME NEW j \in Q PROVE E(i) < E(j) \/ (E(i) = E(j) /\ i <= j)
  <2>1. E(i) = e /\ E(j) \in T /\ E(j) \in Nat /\ e \in Nat
    BY <1>1, <1>3, <1>4, <1>5, <1>6, <1>8, <1>9
  <2>2. E(i) <= E(j)
    BY <2>1, <1>5
  <2>3. CASE E(i) = E(j)
    BY <2>1, <2>3, <1>6, <1>8, <1>9
  <2>4. CASE E(i) # E(j)
    BY <2>1, <2>2, <2>4
  <2> QED
    BY <2>3, <2>4
<1>10. \E m \in Q : \A j \in Q : E(m) < E(j) \/ (E(m) = E(j) /\ m <= j)
  BY <1>6, <1>8, <1>9
<1> QED
  BY <1>10 DEF Front, Q, E

\* Taking a node keeps the order.
LEMMA TakeKeeps ==
    ASSUME NEW nodes, DOMAIN nodes \subseteq Nat, NEW taken, SortOK(nodes, taken)
    PROVE  /\ SortOK(nodes, Take(nodes, taken))
           /\ Len(Take(nodes, taken)) = IF Queue(nodes, taken) = {} THEN Len(taken) ELSE Len(taken) + 1
<1>1. CASE Queue(nodes, taken) = {}
  BY <1>1 DEF Take
<1>2. CASE Queue(nodes, taken) # {}
  <2>1. taken \in Seq(DOMAIN nodes) /\ Len(taken) \in Nat /\ DOMAIN taken = 1..Len(taken)
    BY DEF SortOK
  <2>2. PICK f : f = Front(nodes, taken)
    OBVIOUS
  <2>3. f \in Queue(nodes, taken)
    BY <1>2, <2>1, <2>2, FrontQueued
  <2>4. /\ f \in DOMAIN nodes /\ \A k \in DOMAIN taken : taken[k] # f
        /\ dependencies(nodes[f]) \subseteq {nodes[taken[k]].id : k \in DOMAIN taken}
    BY <2>3 DEF Queue, Free
  <2>5. PICK t : t = Append(taken, f)
    OBVIOUS
  <2>6. Take(nodes, taken) = t
    BY <1>2, <2>2, <2>5 DEF Take
  <2>7. /\ t \in Seq(DOMAIN nodes) /\ Len(t) = Len(taken) + 1 /\ DOMAIN t = 1..(Len(taken) + 1)
        /\ t[Len(taken) + 1] = f /\ \A k \in 1..Len(taken) : t[k] = taken[k]
    BY <2>1, <2>4, <2>5
  <2>8. ASSUME NEW i \in DOMAIN t, NEW j \in DOMAIN t, t[i] = t[j] PROVE i = j
    BY <2>1, <2>4, <2>7, <2>8 DEF SortOK
  <2>9. ASSUME NEW k \in DOMAIN t
        PROVE  dependencies(nodes[t[k]]) \subseteq {nodes[t[j]].id : j \in 1..(k - 1)}
    <3>1. \A j \in 1..(k - 1) : j \in 1..Len(taken) /\ t[j] = taken[j]
      BY <2>1, <2>7
    <3>2. {nodes[t[j]].id : j \in 1..(k - 1)} = {nodes[taken[j]].id : j \in 1..(k - 1)}
      BY <3>1
    <3>3. CASE k = Len(taken) + 1
      <4>1. 1..(k - 1) = DOMAIN taken /\ t[k] = f
        BY <3>3, <2>1, <2>7
      <4> QED
        BY <4>1, <3>2, <2>4
    <3>4. CASE k # Len(taken) + 1
      <4>1. k \in DOMAIN taken /\ t[k] = taken[k]
        BY <3>4, <2>1, <2>7
      <4> QED
        BY <4>1, <3>2 DEF SortOK
    <3> QED
      BY <3>3, <3>4
  <2>10. SortOK(nodes, t)
    BY <2>7, <2>8, <2>9 DEF SortOK
  <2> QED
    BY <1>2, <2>6, <2>7, <2>10
<1> QED
  BY <1>1, <1>2

\* So every round of the sort is in order.
LEMMA RoundsOrdered ==
    ASSUME NEW nodes, DOMAIN nodes \subseteq Nat, Len(nodes) \in Nat
    PROVE  \A k \in 0..Len(nodes) : SortOK(nodes, Rounds(nodes)[k])
<1> DEFINE Bad == {k \in 0..Len(nodes) : ~ SortOK(nodes, Rounds(nodes)[k])}
<1>1. SUFFICES ASSUME Bad # {} PROVE FALSE
  OBVIOUS
<1>2. PICK k \in Bad : \A m \in Bad : k <= m
  <2>1. Bad \subseteq Nat
    OBVIOUS
  <2> HIDE DEF Bad
  <2> QED
    BY <2>1, <1>1, Smallest
<1>3. k \in 0..Len(nodes) /\ ~ SortOK(nodes, Rounds(nodes)[k])
  BY <1>2
<1>4. \A m \in 0..Len(nodes) :
         Rounds(nodes)[m] = IF m = 0 THEN << >> ELSE Take(nodes, Rounds(nodes)[m - 1])
  BY RoundSteps
<1>5. CASE k = 0
  <2>1. << >> \in Seq(DOMAIN nodes) /\ DOMAIN << >> = {}
    BY EmptySeq
  <2>2. SortOK(nodes, << >>)
    BY <2>1 DEF SortOK
  <2> QED
    BY <2>2, <1>3, <1>4, <1>5
<1>6. CASE k # 0
  <2>1. k - 1 \in 0..Len(nodes) /\ k - 1 \notin Bad
    BY <1>2, <1>3, <1>6
  <2>2. SortOK(nodes, Rounds(nodes)[k - 1])
    BY <2>1
  <2>3. SortOK(nodes, Take(nodes, Rounds(nodes)[k - 1]))
    BY <2>2, TakeKeeps
  <2> QED
    BY <2>3, <1>3, <1>4, <1>6
<1> QED
  BY <1>5, <1>6

\* Ids are different, and a node comes after its dependencies.
Distinct(nodes) == \A i, j \in DOMAIN nodes : nodes[i].id = nodes[j].id => i = j
Ordered(nodes)  == \A k \in DOMAIN nodes :
                      dependencies(nodes[k]) \subseteq {nodes[j].id : j \in 1..(k - 1)}

\* What the sort returns is a plan in order, of the nodes it was given.
LEMMA SortOrders ==
    ASSUME NEW nodes \in Seq(TaskNodes), Distinct(nodes), topologicalSort(nodes).ok
    PROVE  /\ topologicalSort(nodes).value \in Seq(TaskNodes)
           /\ Len(topologicalSort(nodes).value) = Len(nodes)
           /\ Distinct(topologicalSort(nodes).value) /\ Ordered(topologicalSort(nodes).value)
           /\ \A k \in DOMAIN topologicalSort(nodes).value :
                 \E i \in DOMAIN nodes : topologicalSort(nodes).value[k] = nodes[i]
<1>1. Len(nodes) \in Nat /\ DOMAIN nodes = 1..Len(nodes) /\ DOMAIN nodes \subseteq Nat
  OBVIOUS
<1>2. PICK taken : taken = Rounds(nodes)[Len(nodes)]
  OBVIOUS
<1>3. SortOK(nodes, taken)
  BY <1>1, <1>2, RoundsOrdered
<1>4. PICK v : v = [k \in DOMAIN taken |-> nodes[taken[k]]]
  OBVIOUS
<1>5. PICK b : b = (Len(taken) = Len(nodes)) /\ topologicalSort(nodes) = [ok |-> b, value |-> v]
  BY <1>2, <1>4 DEF topologicalSort
<1>6. topologicalSort(nodes).value = v /\ Len(taken) = Len(nodes)
  <2>1. topologicalSort(nodes).value = v
    BY <1>5
  <2>2. topologicalSort(nodes).ok = b
    <3>1. PICK r : r = topologicalSort(nodes)
      OBVIOUS
    <3>2. r = [ok |-> b, value |-> v]
      BY <3>1, <1>5, Zenon
    <3>3. r.ok = b
      BY <3>2, Zenon
    <3> QED
      BY <3>1, <3>3, Zenon
  <2> QED
    BY <2>1, <2>2, <1>5, Zenon
<1>7. taken \in Seq(DOMAIN nodes) /\ DOMAIN taken = 1..Len(nodes)
  <2>1. taken \in Seq(DOMAIN nodes)
    BY <1>3 DEF SortOK
  <2> QED
    BY <2>1, <1>6
<1>8. \A k \in 1..Len(nodes) : taken[k] \in DOMAIN nodes /\ v[k] = nodes[taken[k]]
  BY <1>4, <1>7
<1>9. v \in Seq(TaskNodes) /\ Len(v) = Len(nodes) /\ DOMAIN v = 1..Len(nodes)
  <2>1. \A i \in DOMAIN nodes : nodes[i] \in TaskNodes
    OBVIOUS
  <2>2. v \in [1..Len(nodes) -> TaskNodes]
    BY <2>1, <1>4, <1>7, <1>8
  <2>3. v \in Seq(TaskNodes)
    BY <2>2, <1>1, SeqDef
  <2> QED
    BY <2>2, <2>3, <1>1
<1>10. Distinct(v)
  BY <1>3, <1>7, <1>8, <1>9 DEF Distinct, SortOK
<1>11. Ordered(v)
  <2>1. ASSUME NEW k \in DOMAIN v PROVE dependencies(v[k]) \subseteq {v[j].id : j \in 1..(k - 1)}
    <3>1. k \in DOMAIN taken /\ v[k] = nodes[taken[k]]
      BY <1>7, <1>8, <1>9
    <3>2. \A j \in 1..(k - 1) : v[j] = nodes[taken[j]]
      BY <1>1, <1>8, <1>9
    <3>3. {v[j].id : j \in 1..(k - 1)} = {nodes[taken[j]].id : j \in 1..(k - 1)}
      BY <3>2
    <3> QED
      BY <3>1, <3>3, <1>3 DEF SortOK
  <2> QED
    BY <2>1 DEF Ordered
<1> QED
  BY <1>6, <1>8, <1>9, <1>10, <1>11

\* Nodes have no cycle, and none depends on one that is missing, when they can
\* be ranked: every dependency is the id of a node of a lower rank.
Ranked(nodes, rank) ==
    \A i \in DOMAIN nodes :
        dependencies(nodes[i]) \subseteq {nodes[j].id : j \in {m \in DOMAIN nodes : rank[m] < rank[i]}}

Acyclic(nodes) == \E rank \in [DOMAIN nodes -> Nat] : Ranked(nodes, rank)

\* While nodes without a cycle are not all taken, one of them is free.
LEMMA AcyclicHasFree ==
    ASSUME NEW nodes, Len(nodes) \in Nat, DOMAIN nodes = 1..Len(nodes), Acyclic(nodes),
           NEW taken, SortOK(nodes, taken), Len(taken) < Len(nodes)
    PROVE  Queue(nodes, taken) # {}
<1>1. taken \in Seq(DOMAIN nodes) /\ Len(taken) \in Nat /\ DOMAIN taken = 1..Len(taken)
  BY DEF SortOK
<1>2. PICK T : T = {taken[k] : k \in DOMAIN taken}
  OBVIOUS
<1>3. T \subseteq DOMAIN nodes
  BY <1>1, <1>2
<1>4. DOMAIN nodes \ T # {}
  <2>1. SUFFICES ASSUME T = DOMAIN nodes PROVE FALSE
    BY <1>3
  <2>2. taken \in Surjection(1..Len(taken), DOMAIN nodes)
    BY <1>1, <1>2, <2>1 DEF Surjection
  <2>3. Cardinality(DOMAIN nodes) <= Len(taken)
    BY <1>1, <2>2, FS_SurjCardinalityBound DEF ExistsSurjection
  <2>4. Cardinality(1..Len(nodes)) = Len(nodes)
    BY FS_Interval
  <2> QED
    BY <1>1, <2>3, <2>4
<1>5. PICK rank \in [DOMAIN nodes -> Nat] : Ranked(nodes, rank)
  BY DEF Acyclic
<1>6. PICK i \in DOMAIN nodes \ T : \A j \in DOMAIN nodes \ T : rank[i] <= rank[j]
  <2>1. PICK R : R = {rank[j] : j \in DOMAIN nodes \ T}
    OBVIOUS
  <2>2. R \subseteq Nat /\ R # {}
    BY <2>1, <1>4
  <2>3. PICK r \in R : \A q \in R : r <= q
    BY <2>2, Smallest
  <2> QED
    BY <2>1, <2>3
<1>7. \A j \in DOMAIN nodes : rank[j] < rank[i] => j \in T
  <2>1. ASSUME NEW j \in DOMAIN nodes, rank[j] < rank[i], j \notin T PROVE FALSE
    <3>1. rank[i] <= rank[j] /\ rank[i] \in Nat /\ rank[j] \in Nat
      BY <2>1, <1>6
    <3> QED
      BY <3>1, <2>1
  <2> QED
    BY <2>1
<1>8. dependencies(nodes[i]) \subseteq {nodes[j].id : j \in T}
  BY <1>5, <1>6, <1>7 DEF Ranked
<1>9. i \in Free(nodes, taken)
  BY <1>2, <1>6, <1>8 DEF Free
<1> QED
  BY <1>2, <1>6, <1>9 DEF Queue

\* So the sort of nodes without a cycle succeeds.
LEMMA SortSucceeds ==
    ASSUME NEW nodes \in Seq(TaskNodes), Acyclic(nodes)
    PROVE  topologicalSort(nodes).ok
<1> DEFINE Bad == {k \in 0..Len(nodes) : Len(Rounds(nodes)[k]) # k}
<1>1. Len(nodes) \in Nat /\ DOMAIN nodes = 1..Len(nodes) /\ DOMAIN nodes \subseteq Nat
  OBVIOUS
<1>2. \A m \in 0..Len(nodes) :
         Rounds(nodes)[m] = IF m = 0 THEN << >> ELSE Take(nodes, Rounds(nodes)[m - 1])
  BY <1>1, RoundSteps
<1>3. Bad = {}
  <2>1. SUFFICES ASSUME Bad # {} PROVE FALSE
    OBVIOUS
  <2>2. Bad \subseteq Nat
    OBVIOUS
  <2>3. PICK k \in Bad : \A m \in Bad : k <= m
    <3> HIDE DEF Bad
    <3> QED
      BY <2>1, <2>2, Smallest
  <2>4. k \in 0..Len(nodes) /\ Len(Rounds(nodes)[k]) # k
    BY <2>3
  <2>5. CASE k = 0
    <3>1. Len(<< >>) = 0
      BY EmptySeq
    <3> QED
      BY <3>1, <1>2, <2>4, <2>5
  <2>6. CASE k # 0
    <3>1. k - 1 \in 0..Len(nodes) /\ ~ (k <= k - 1) /\ k - 1 < Len(nodes)
      BY <2>4, <2>6, <1>1
    <3>2. k - 1 \notin Bad
      <4> HIDE DEF Bad
      <4> QED
        BY <3>1, <2>3
    <3>3. PICK t : t = Rounds(nodes)[k - 1]
      OBVIOUS
    <3>4. Len(t) = k - 1 /\ SortOK(nodes, t)
      BY <1>1, <3>1, <3>2, <3>3, RoundsOrdered
    <3>5. Queue(nodes, t) # {}
      BY <1>1, <3>1, <3>4, AcyclicHasFree
    <3>6. Len(Take(nodes, t)) = Len(t) + 1
      BY <1>1, <3>4, <3>5, TakeKeeps
    <3>7. Rounds(nodes)[k] = Take(nodes, t)
      BY <1>2, <2>4, <2>6, <3>3
    <3> QED
      BY <3>4, <3>6, <3>7, <2>4
  <2> QED
    BY <2>5, <2>6
<1>4. Len(Rounds(nodes)[Len(nodes)]) = Len(nodes)
  BY <1>1, <1>3
<1> QED
  BY <1>4 DEF topologicalSort

\* A plan in order has no cycle.
LEMMA OrderedIsAcyclic ==
    ASSUME NEW nodes \in Seq(TaskNodes), Ordered(nodes) PROVE Acyclic(nodes)
<1>1. Len(nodes) \in Nat /\ DOMAIN nodes = 1..Len(nodes)
  OBVIOUS
<1>2. PICK rank : rank = [i \in DOMAIN nodes |-> i]
  OBVIOUS
<1>3. rank \in [DOMAIN nodes -> Nat]
  BY <1>1, <1>2
<1>4. ASSUME NEW i \in DOMAIN nodes
      PROVE  dependencies(nodes[i])
               \subseteq {nodes[j].id : j \in {m \in DOMAIN nodes : rank[m] < rank[i]}}
  <2>1. dependencies(nodes[i]) \subseteq {nodes[j].id : j \in 1..(i - 1)}
    BY <1>4 DEF Ordered
  <2>2. \A j \in 1..(i - 1) : j \in DOMAIN nodes /\ rank[j] < rank[i]
    BY <1>1, <1>2, <1>4
  <2> QED
    BY <2>1, <2>2
<1> QED
  BY <1>3, <1>4 DEF Acyclic, Ranked

\* The sort takes every node only if there is no cycle.
LEMMA SortedIsAcyclic ==
    ASSUME NEW nodes \in Seq(TaskNodes), topologicalSort(nodes).ok PROVE Acyclic(nodes)
<1>1. Len(nodes) \in Nat /\ DOMAIN nodes = 1..Len(nodes) /\ DOMAIN nodes \subseteq Nat
  OBVIOUS
<1>2. PICK taken : taken = Rounds(nodes)[Len(nodes)]
  OBVIOUS
<1>3. SortOK(nodes, taken)
  BY <1>1, <1>2, RoundsOrdered
<1>4. Len(taken) = Len(nodes)
  <2>1. PICK b : b = (Len(taken) = Len(nodes))
    OBVIOUS
  <2>2. PICK v : v = [k \in DOMAIN taken |-> nodes[taken[k]]]
    OBVIOUS
  <2>3. topologicalSort(nodes) = [ok |-> b, value |-> v]
    BY <2>1, <2>2, <1>2 DEF topologicalSort
  <2>4. topologicalSort(nodes).ok = b
    <3>1. PICK r : r = topologicalSort(nodes)
      OBVIOUS
    <3>2. r = [ok |-> b, value |-> v]
      BY <3>1, <2>3, Zenon
    <3>3. r.ok = b
      BY <3>2, Zenon
    <3> QED
      BY <3>1, <3>3, Zenon
  <2> QED
    BY <2>1, <2>4, Zenon
<1>5. taken \in [1..Len(nodes) -> DOMAIN nodes] /\ DOMAIN taken = 1..Len(nodes)
  <2>1. taken \in Seq(DOMAIN nodes)
    BY <1>3 DEF SortOK
  <2> QED
    BY <2>1, <1>4
<1>6. \A i \in DOMAIN nodes : \E k \in 1..Len(nodes) : taken[k] = i
  <2>1. SUFFICES ASSUME NEW i \in DOMAIN nodes, \A k \in 1..Len(nodes) : taken[k] # i PROVE FALSE
    OBVIOUS
  <2>2. PICK T : T = DOMAIN nodes \ {i}
    OBVIOUS
  <2>3. taken \in [1..Len(nodes) -> T]
    BY <2>1, <2>2, <1>5
  <2>4. IsFiniteSet(DOMAIN nodes) /\ Cardinality(DOMAIN nodes) = Len(nodes)
    BY <1>1, FS_Interval
  <2>5. IsFiniteSet(T) /\ Cardinality(T) = Len(nodes) - 1
    BY <2>1, <2>2, <2>4, FS_RemoveElement
  <2>6. Cardinality(1..Len(nodes)) = Len(nodes) /\ IsFiniteSet(1..Len(nodes))
    BY <2>4, <1>1
  <2>7. PICK j, k \in 1..Len(nodes) : j # k /\ taken[j] = taken[k]
    <3>1. Cardinality(1..Len(nodes)) > Cardinality(T)
      BY <2>5, <2>6, <1>1
    <3> QED
      BY <3>1, <2>3, <2>5, <2>6, FS_PigeonHole
  <2> QED
    BY <2>7, <1>3, <1>5 DEF SortOK
<1>7. PICK rank : rank = [i \in DOMAIN nodes |-> CHOOSE k \in 1..Len(nodes) : taken[k] = i]
  OBVIOUS
<1>8. \A i \in DOMAIN nodes : rank[i] \in 1..Len(nodes) /\ taken[rank[i]] = i
  BY <1>6, <1>7
<1>9. rank \in [DOMAIN nodes -> Nat]
  BY <1>7, <1>8
<1>10. \A k \in 1..Len(nodes) : rank[taken[k]] = k
  <2>1. ASSUME NEW k \in 1..Len(nodes) PROVE rank[taken[k]] = k
    <3>1. taken[k] \in DOMAIN nodes
      BY <1>5
    <3>2. rank[taken[k]] \in 1..Len(nodes) /\ taken[rank[taken[k]]] = taken[k]
      BY <3>1, <1>8
    <3> QED
      BY <3>2, <1>3, <1>5 DEF SortOK
  <2> QED
    BY <2>1
<1>11. ASSUME NEW i \in DOMAIN nodes
       PROVE  dependencies(nodes[i])
                \subseteq {nodes[j].id : j \in {m \in DOMAIN nodes : rank[m] < rank[i]}}
  <2>1. PICK k \in 1..Len(nodes) : k = rank[i] /\ taken[k] = i
    BY <1>8, <1>11
  <2>2. dependencies(nodes[i]) \subseteq {nodes[taken[j]].id : j \in 1..(k - 1)}
    BY <2>1, <1>3, <1>5 DEF SortOK
  <2>3. \A j \in 1..(k - 1) : taken[j] \in DOMAIN nodes /\ rank[taken[j]] < rank[i]
    <3>1. ASSUME NEW j \in 1..(k - 1) PROVE taken[j] \in DOMAIN nodes /\ rank[taken[j]] < rank[i]
      <4>1. j \in 1..Len(nodes) /\ j < k
        BY <1>1, <2>1
      <4> QED
        BY <4>1, <2>1, <1>5, <1>10
    <3> QED
      BY <3>1
  <2> QED
    BY <2>2, <2>3
<1> QED
  BY <1>9, <1>11 DEF Acyclic, Ranked

\* topologicalSort refuses exactly the nodes that have a cycle or depend on one
\* that is missing, and its answer has every node once, after its dependencies.
THEOREM SortIsExact ==
    \A nodes \in Seq(TaskNodes) : Distinct(nodes) =>
        /\ topologicalSort(nodes).ok <=> Acyclic(nodes)
        /\ topologicalSort(nodes).ok =>
              /\ Len(topologicalSort(nodes).value) = Len(nodes)
              /\ Distinct(topologicalSort(nodes).value) /\ Ordered(topologicalSort(nodes).value)
              /\ \A k \in DOMAIN topologicalSort(nodes).value :
                    \E i \in DOMAIN nodes : topologicalSort(nodes).value[k] = nodes[i]
<1>1. ASSUME NEW nodes \in Seq(TaskNodes), Distinct(nodes)
      PROVE  topologicalSort(nodes).ok <=> Acyclic(nodes)
  BY SortSucceeds, SortedIsAcyclic
<1>2. ASSUME NEW nodes \in Seq(TaskNodes), Distinct(nodes), topologicalSort(nodes).ok
      PROVE  /\ Len(topologicalSort(nodes).value) = Len(nodes)
             /\ Distinct(topologicalSort(nodes).value) /\ Ordered(topologicalSort(nodes).value)
             /\ \A k \in DOMAIN topologicalSort(nodes).value :
                   \E i \in DOMAIN nodes : topologicalSort(nodes).value[k] = nodes[i]
  BY <1>2, SortOrders
<1> QED
  BY <1>1, <1>2

\* An answer that parses is a plan in order, within its limit.
LEMMA ParseOrders ==
    ASSUME NEW answer \in Answers, parseDecomposition(answer).ok
    PROVE  /\ parseDecomposition(answer).value \in Seq(TaskNodes)
           /\ Len(parseDecomposition(answer).value) \in 1..MaxSubtasks
           /\ Distinct(parseDecomposition(answer).value) /\ Ordered(parseDecomposition(answer).value)
<1>1. PICK nodes : nodes = [i \in DOMAIN answer |->
         [answer[i] EXCEPT !.language = IF @ \in validLanguages THEN @ ELSE "text"]]
  OBVIOUS
<1>2. /\ answer # NotJson /\ answer # << >>
      /\ \A i, j \in DOMAIN answer : answer[i].id = answer[j].id => i = j
      /\ ~ (Len(answer) > MaxSubtasks)
      /\ parseDecomposition(answer) = topologicalSort(nodes)
  <2>1. [ok |-> FALSE, value |-> << >>].ok = FALSE
    OBVIOUS
  <2>2. parseDecomposition(answer) # [ok |-> FALSE, value |-> << >>]
    BY <2>1
  <2> QED
    BY <2>2, <1>1 DEF parseDecomposition
<1>3. answer \in Seq(TaskNodes) /\ MaxSubtasks \in Nat
  BY <1>2, PlanAssumption
<1>4. Len(answer) \in Nat /\ DOMAIN answer = 1..Len(answer) /\ Len(answer) \in 1..MaxSubtasks
  BY <1>2, <1>3, EmptySeq
<1>5. ASSUME NEW i \in DOMAIN answer PROVE nodes[i] \in TaskNodes /\ nodes[i].id = answer[i].id
  <2>1. answer[i] \in TaskNodes
    BY <1>3, <1>5
  <2>2. PICK l : l = IF answer[i].language \in validLanguages THEN answer[i].language ELSE "text"
    OBVIOUS
  <2>3. l \in Words
    BY <2>1, <2>2, PlanAssumption DEF TaskNodes
  <2>4. nodes[i] = [answer[i] EXCEPT !.language = l]
    BY <1>1, <2>1, <2>2 DEF TaskNodes
  <2> QED
    BY <2>1, <2>3, <2>4 DEF TaskNodes
<1>6. nodes \in Seq(TaskNodes) /\ Len(nodes) = Len(answer) /\ DOMAIN nodes = DOMAIN answer
  <2>1. nodes \in [1..Len(answer) -> TaskNodes]
    BY <1>1, <1>4, <1>5
  <2>2. nodes \in Seq(TaskNodes)
    BY <2>1, <1>4, SeqDef
  <2> QED
    BY <2>1, <2>2, <1>4
<1>7. Distinct(nodes)
  BY <1>2, <1>5, <1>6 DEF Distinct
<1> QED
  BY <1>2, <1>4, <1>6, <1>7, SortOrders
-----------------------------------------------------------------------------
(* Plans and their execution *)

PlanOK(p) ==
    /\ p.task \in TaskIds /\ p.tasks \in Seq(TaskNodes) /\ Len(p.tasks) \in 1..MaxSubtasks
    /\ Distinct(p.tasks) /\ Ordered(p.tasks)

AskedOK ==
    /\ \A p \in engine : DOMAIN p = {"tools", "models"}
    /\ asking \in [TaskIds -> {"idle", "asked", "asked again"}]
    /\ asked \in 0..MaxPlans
    /\ \A p \in writing \cup plans : PlanOK(p)

\* The plan that is executed, as far as it is completed, and its results.
OrderOK ==
    /\ exec.order \in Seq(TaskNodes) /\ Distinct(exec.order) /\ Ordered(exec.order)
    /\ exec.pos \in 1..(Len(exec.order) + 1)
    /\ \A k \in DOMAIN exec.order : \A p \in engine : checkTool(p, exec.order[k].language)

CompletedOK ==
    /\ exec.completed \in Seq([id : SubtaskIds, ok : BOOLEAN])
    /\ Len(exec.completed) = exec.pos - 1
    /\ \A k \in DOMAIN exec.completed : exec.completed[k].id = exec.order[k].id

ResultsOf(k) == {r \in exec.results : r.node = exec.order[k].id}

Accounted ==
    /\ \A r \in exec.results : \E k \in DOMAIN exec.completed : r.node = exec.order[k].id
    /\ \A k \in DOMAIN exec.completed :
         IF FailedDependencies(exec.order[k]) = {}
         THEN ResultsOf(k) = Ran(exec.order[k], exec.completed[k].ok)
         ELSE ResultsOf(k) = Skipped(exec.order[k]) /\ exec.completed[k].ok = FALSE

Active == {"next", "waiting", "answered"}

ExecOK ==
    /\ exec = [phase |-> exec.phase, task |-> exec.task, order |-> exec.order, pos |-> exec.pos,
               completed |-> exec.completed, results |-> exec.results, attempt |-> exec.attempt]
    /\ exec.phase \in {"idle", "refused", "no plan"} \cup Active
    /\ exec.phase \in Active => OrderOK /\ CompletedOK /\ Accounted
    /\ exec.phase \in {"next", "waiting"} => exec.pos <= Len(exec.order)
    /\ exec.phase = "answered" => exec.pos = Len(exec.order) + 1
    /\ exec.phase = "waiting" => exec.attempt \in {1, 2}

Done(n) == \A d \in dependencies(n) :
              \E k \in DOMAIN exec.completed : exec.completed[k] = [id |-> d, ok |-> TRUE]

\* What runs is a node of the plan whose dependencies succeeded, and is late
\* or waited for.
AttemptOK(a) ==
    /\ a = [node |-> a.node, try |-> a.try, refused |-> a.refused, late |-> a.late]
    /\ a.try \in {1, 2} /\ a.late \in BOOLEAN
    /\ \E k \in DOMAIN exec.order : a.node = exec.order[k]
    /\ Done(a.node)
    /\ a.late \/ Awaited(a)

InFlightOK ==
    /\ \A a \in inFlight : AttemptOK(a)
    /\ inFlight # {} => exec.phase \in Active
    /\ \A a, b \in inFlight : ~ a.late /\ ~ b.late => a = b
    /\ exec.phase = "waiting" => \E a \in inFlight : Awaited(a)

PlanInv == AskedOK /\ ExecOK /\ InFlightOK

\* Two sets whose elements correspond have as many.
LEMMA SameNumber ==
    ASSUME NEW S, IsFiniteSet(S), NEW T, NEW f, f \in [S -> T],
           \A x, y \in S : f[x] = f[y] => x = y, \A t \in T : \E x \in S : f[x] = t
    PROVE  Cardinality(T) = Cardinality(S)
<1>1. f \in Bijection(S, T)
  BY Fun_IsBij
<1> QED
  BY <1>1, FS_Bijection DEF ExistsBijection

\* A call that is answered has a result for every node that ran and for every
\* failed dependency of one that did not.
LEMMA AnsweredAccounted ==
    ASSUME PlanInv, exec.phase = "answered" PROVE PlanAccounted
<1>1. OrderOK /\ CompletedOK /\ Accounted /\ exec.pos = Len(exec.order) + 1
  BY DEF PlanInv, ExecOK, Active
<1>2. /\ Len(exec.order) \in Nat /\ DOMAIN exec.order = 1..Len(exec.order)
      /\ Len(exec.completed) = Len(exec.order) /\ DOMAIN exec.completed = 1..Len(exec.order)
      /\ \A k \in 1..Len(exec.order) : exec.order[k] \in TaskNodes /\ exec.completed[k].ok \in BOOLEAN
  <2>1. /\ exec.order \in Seq(TaskNodes) /\ exec.completed \in Seq([id : SubtaskIds, ok : BOOLEAN])
        /\ Len(exec.completed) = exec.pos - 1 /\ exec.pos = Len(exec.order) + 1
    BY <1>1 DEF OrderOK, CompletedOK
  <2>2. Len(exec.completed) = Len(exec.order)
    BY <2>1
  <2>3. \A k \in DOMAIN exec.completed : exec.completed[k].ok \in BOOLEAN
    <3>1. PICK R : R = [id : SubtaskIds, ok : BOOLEAN]
      OBVIOUS
    <3>2. exec.completed \in Seq(R)
      BY <2>1, <3>1
    <3>3. \A k \in DOMAIN exec.completed : exec.completed[k] \in R
      BY <3>2
    <3> QED
      BY <3>1, <3>3
  <2>4. \A k \in DOMAIN exec.order : exec.order[k] \in TaskNodes
    BY <2>1, ElementOfSeq
  <2>5. DOMAIN exec.order = 1..Len(exec.order) /\ DOMAIN exec.completed = 1..Len(exec.completed)
        /\ Len(exec.order) \in Nat
    BY <2>1
  <2> QED
    BY <2>2, <2>3, <2>4, <2>5
<1>3. ASSUME NEW k \in DOMAIN exec.order
      PROVE  Cardinality({r \in exec.results : r.node = exec.order[k].id})
               = IF FailedDependencies(exec.order[k]) = {} THEN 1
                 ELSE Cardinality(FailedDependencies(exec.order[k]))
  <2>1. PICK n : n = exec.order[k]
    OBVIOUS
  <2>2. CASE FailedDependencies(n) = {}
    <3>1. ResultsOf(k) = Ran(n, exec.completed[k].ok)
      BY <1>1, <1>2, <1>3, <2>1, <2>2 DEF Accounted
    <3>2. PICK x : x = [node |-> n.id, after |-> 0, ok |-> exec.completed[k].ok]
      OBVIOUS
    <3>3. Cardinality({x}) = 1
      BY FS_Singleton
    <3> QED
      BY <3>1, <3>2, <3>3, <2>1, <2>2 DEF Ran, ResultsOf
  <2>3. CASE FailedDependencies(n) # {}
    <3>1. ResultsOf(k) = Skipped(n)
      BY <1>1, <1>2, <1>3, <2>1, <2>3 DEF Accounted
    <3>2. PICK F : F = FailedDependencies(n)
      OBVIOUS
    <3>3. IsFiniteSet(F)
      <4>1. n.dependsOn \in Seq(SubtaskIds)
        BY <1>2, <1>3, <2>1 DEF TaskNodes
      <4>2. F \in SUBSET (1..Len(n.dependsOn)) /\ Len(n.dependsOn) \in Nat
        BY <3>2, <4>1 DEF FailedDependencies
      <4>3. IsFiniteSet(1..Len(n.dependsOn))
        BY <4>2, FS_Interval
      <4> QED
        BY <4>2, <4>3, FS_Subset
    <3>4. PICK T : T = {[node |-> n.id, after |-> i, ok |-> FALSE] : i \in F}
      OBVIOUS
    <3>5. PICK f : f = [i \in F |-> [node |-> n.id, after |-> i, ok |-> FALSE]]
      OBVIOUS
    <3>6. f \in [F -> T] /\ \A t \in T : \E i \in F : f[i] = t
      BY <3>4, <3>5
    <3>7. \A i, j \in F : f[i] = f[j] => i = j
      <4>1. \A i \in F : f[i].after = i
        BY <3>5
      <4> QED
        BY <4>1
    <3>8. Cardinality(T) = Cardinality(F)
      BY <3>3, <3>6, <3>7, SameNumber
    <3> QED
      BY <3>1, <3>2, <3>4, <3>8, <2>1, <2>3 DEF Skipped, ResultsOf
  <2> QED
    BY <2>1, <2>2, <2>3
<1>4. Cardinality({r \in exec.results : r.ok})
         = Cardinality({exec.completed[k].id : k \in {j \in DOMAIN exec.completed : exec.completed[j].ok}})
  <2>1. PICK D : D = {j \in DOMAIN exec.completed : exec.completed[j].ok}
    OBVIOUS
  <2>2. PICK S : S = {exec.completed[k].id : k \in D}
    OBVIOUS
  <2>3. IsFiniteSet(S)
    <3>1. PICK g : g = [k \in D |-> exec.completed[k].id]
      OBVIOUS
    <3>2. g \in Surjection(D, S)
      BY <2>2, <3>1 DEF Surjection
    <3>3. D \in SUBSET (1..Len(exec.order))
      BY <1>2, <2>1
    <3>4. IsFiniteSet(D)
      <4>1. IsFiniteSet(1..Len(exec.order))
        BY <1>2, FS_Interval
      <4> QED
        BY <3>3, <4>1, FS_Subset
    <3> QED
      BY <3>2, <3>4, FS_Surjection
  <2>4. PICK T : T = {r \in exec.results : r.ok}
    OBVIOUS
  <2>5. PICK f : f = [i \in S |-> [node |-> i, after |-> 0, ok |-> TRUE]]
    OBVIOUS
  <2>6. ASSUME NEW i \in S PROVE f[i] \in T
    <3>1. PICK k \in DOMAIN exec.completed : exec.completed[k].ok /\ exec.completed[k].id = i
      BY <2>1, <2>2, <2>6
    <3>2. exec.completed[k].ok = TRUE /\ exec.order[k].id = i
      BY <3>1, <1>1, <1>2 DEF CompletedOK
    <3>3. ResultsOf(k) = Ran(exec.order[k], exec.completed[k].ok)
      BY <3>1, <3>2, <1>1 DEF Accounted
    <3>4. f[i] = [node |-> i, after |-> 0, ok |-> TRUE]
      BY <2>5, <2>6
    <3>5. f[i] \in exec.results
      BY <3>2, <3>3, <3>4 DEF Ran, ResultsOf
    <3>6. f[i].ok = TRUE
      BY <3>4
    <3> QED
      BY <3>5, <3>6, <2>4
  <2>7. ASSUME NEW r \in T PROVE \E i \in S : f[i] = r
    <3>1. r \in exec.results /\ r.ok
      BY <2>4, <2>7
    <3>2. PICK k \in DOMAIN exec.completed : r.node = exec.order[k].id
      BY <3>1, <1>1 DEF Accounted
    <3>3. r \in ResultsOf(k)
      BY <3>1, <3>2 DEF ResultsOf
    <3>4. FailedDependencies(exec.order[k]) = {}
      <4>1. SUFFICES ASSUME FailedDependencies(exec.order[k]) # {} PROVE FALSE
        OBVIOUS
      <4>2. r \in Skipped(exec.order[k])
        BY <4>1, <3>3, <1>1 DEF Accounted
      <4>3. r.ok = FALSE
        BY <4>2 DEF Skipped
      <4> QED
        BY <3>1, <4>3
    <3>5. r = [node |-> exec.order[k].id, after |-> 0, ok |-> exec.completed[k].ok]
      BY <3>3, <3>4, <1>1 DEF Accounted, Ran
    <3>6. exec.completed[k].ok = TRUE
      <4>1. r.ok = exec.completed[k].ok
        BY <3>5
      <4> QED
        BY <4>1, <3>1, <3>2, <1>2
    <3>7. PICK i : i = exec.completed[k].id
      OBVIOUS
    <3>8. i \in S /\ i = exec.order[k].id
      BY <2>1, <2>2, <3>2, <3>6, <3>7, <1>1 DEF CompletedOK
    <3> QED
      BY <3>5, <3>6, <3>8, <2>5
  <2>8. f \in [S -> T] /\ \A i, j \in S : f[i] = f[j] => i = j
    <3>1. \A i \in S : f[i].node = i
      BY <2>5
    <3> QED
      BY <3>1, <2>5, <2>6
  <2>9. Cardinality(T) = Cardinality(S)
    BY <2>3, <2>7, <2>8, SameNumber
  <2> QED
    BY <2>1, <2>2, <2>4, <2>9
<1> QED
  BY <1>2, <1>3, <1>4 DEF PlanAccounted

\* The invariant says what is to be shown.
LEMMA PlanInvImplies ==
    ASSUME PlanInv PROVE PlanTypeOK /\ PlanFollowed /\ PlanAccounted
<1>1. AskedOK /\ ExecOK /\ InFlightOK
  BY DEF PlanInv
<1>2. PlanTypeOK
  <2>1. exec.phase \in {"next", "waiting"} => exec.pos \in DOMAIN exec.order
    <3>1. ASSUME exec.phase \in {"next", "waiting"} PROVE exec.pos \in DOMAIN exec.order
      <4>1. exec.order \in Seq(TaskNodes) /\ exec.pos \in 1..(Len(exec.order) + 1) /\ exec.pos <= Len(exec.order)
        BY <1>1, <3>1 DEF ExecOK, OrderOK, Active
      <4> QED
        BY <4>1
    <3> QED
      BY <3>1
  <2>2. exec.phase \in {"idle", "next", "waiting"} \cup Ended
    BY <1>1 DEF ExecOK, Active, Ended
  <2> QED
    BY <2>1, <2>2, <1>1 DEF AskedOK, PlanOK, InFlightOK, AttemptOK, PlanTypeOK
<1>3. PlanFollowed
  <2>1. ASSUME NEW a \in inFlight
        PROVE  /\ \A d \in dependencies(a.node) :
                     \E k \in DOMAIN exec.completed : exec.completed[k] = [id |-> d, ok |-> TRUE]
               /\ \A p \in engine : checkTool(p, a.node.language)
               /\ a.late \/ Awaited(a)
    <3>1. AttemptOK(a) /\ OrderOK
      BY <1>1 DEF InFlightOK, ExecOK
    <3> QED
      BY <3>1 DEF AttemptOK, OrderOK, Done
  <2> QED
    BY <2>1, <1>1 DEF InFlightOK, PlanFollowed
<1>4. PlanAccounted
  <2>1. CASE exec.phase = "answered"
    BY <2>1, AnsweredAccounted
  <2>2. CASE exec.phase # "answered"
    BY <2>2, <1>1 DEF ExecOK, Active, PlanAccounted
  <2> QED
    BY <2>1, <2>2
<1> QED
  BY <1>2, <1>3, <1>4

\* No plan is there at first.
LEMMA PlanInitInv == ASSUME PlanInit PROVE PlanInv
<1>1. /\ engine \in {{}} \cup {{loadFromFile(DEFAULT_POLICY, f)} : f \in PolicyFiles}
      /\ asking = [t \in TaskIds |-> "idle"] /\ asked = 0 /\ writing = {} /\ plans = {}
      /\ exec = NoCall /\ inFlight = {}
  BY DEF PlanInit
<1>2. \A p \in engine : DOMAIN p = {"tools", "models"}
  <2>1. \A f \in PolicyFiles : DOMAIN loadFromFile(DEFAULT_POLICY, f) = {"tools", "models"}
    BY PlanAssumption DEF loadFromFile, DEFAULT_POLICY
  <2> QED
    BY <1>1, <2>1
<1>3. AskedOK
  BY <1>1, <1>2, PlanAssumption DEF AskedOK
<1>4. ExecOK
  BY <1>1 DEF ExecOK, NoCall, Active
<1>5. InFlightOK
  <2>1. exec.phase = "idle"
    BY <1>1 DEF NoCall
  <2> QED
    BY <1>1, <2>1 DEF InFlightOK
<1> QED
  BY <1>3, <1>4, <1>5 DEF PlanInv

\* The plans stay what they are.
LEMMA AskedKept ==
    ASSUME PlanInv, UNCHANGED <<engine, asking, asked, writing, plans>> PROVE AskedOK'
BY DEF PlanInv, AskedOK, PlanOK

\* So does an execution whose variables stay the same.
LEMMA ExecKept ==
    ASSUME PlanInv, UNCHANGED <<engine, exec, inFlight>> PROVE ExecOK' /\ InFlightOK'
<1>1. engine' = engine /\ exec' = exec /\ inFlight' = inFlight
  OBVIOUS
<1>2. OrderOK' <=> OrderOK
  BY <1>1 DEF OrderOK
<1>3. CompletedOK' <=> CompletedOK
  BY <1>1 DEF CompletedOK
<1>4. Accounted' <=> Accounted
  BY <1>1 DEF Accounted, ResultsOf, FailedDependencies, Failed, Skipped
<1>5. ExecOK'
  BY <1>1, <1>2, <1>3, <1>4 DEF PlanInv, ExecOK
<1>6. \A a : AttemptOK(a)' <=> AttemptOK(a)
  BY <1>1 DEF AttemptOK, Done, Awaited, Node
<1>7. \A a : Awaited(a)' <=> Awaited(a)
  BY <1>1 DEF Awaited, Node
<1> QED
  BY <1>1, <1>5, <1>6, <1>7 DEF PlanInv, InFlightOK

\* A decomposition is asked for.
LEMMA DecomposeInv ==
    ASSUME PlanInv, NEW t \in TaskIds, NEW l, decomposeTask(t, l) PROVE PlanInv'
<1>1. AskedOK
  BY DEF PlanInv
<1>2. /\ asked < MaxPlans /\ asking' = [asking EXCEPT ![t] = "asked"] /\ asked' = asked + 1
      /\ UNCHANGED <<engine, writing, plans, exec, inFlight, shuttingDown>>
  BY DEF decomposeTask
<1>3. asking' \in [TaskIds -> {"idle", "asked", "asked again"}]
  BY <1>1, <1>2 DEF AskedOK
<1>4. asked' \in 0..MaxPlans
  <2>1. MaxPlans \in Nat /\ asked \in 0..MaxPlans
    BY <1>1, PlanAssumption DEF AskedOK
  <2> QED
    BY <2>1, <1>2
<1>5. AskedOK'
  BY <1>1, <1>2, <1>3, <1>4 DEF AskedOK, PlanOK
<1> QED
  BY <1>2, <1>5, ExecKept DEF PlanInv

\* The model answers: a plan that is handed to the store is in order.
LEMMA ModelAnswersInv ==
    ASSUME PlanInv, NEW t \in TaskIds, ModelAnswers(t) PROVE PlanInv'
<1>1. AskedOK
  BY DEF PlanInv
<1>2. UNCHANGED <<engine, asked, plans, exec, inFlight, shuttingDown>>
  BY DEF ModelAnswers
<1>3. \E x \in {"idle", "asked again"} : asking' = [asking EXCEPT ![t] = x]
  BY DEF ModelAnswers
<1>4. asking' \in [TaskIds -> {"idle", "asked", "asked again"}]
  BY <1>1, <1>3 DEF AskedOK
<1>5. \A p \in writing' : PlanOK(p)
  <2>1. CASE writing' = writing
    BY <2>1, <1>1 DEF AskedOK
  <2>2. CASE writing' # writing
    <3>1. PICK answer \in Answers :
             /\ parseDecomposition(answer).ok
             /\ writing' = writing \cup {[task |-> t, at |-> asked, tasks |-> parseDecomposition(answer).value]}
      BY <2>2 DEF ModelAnswers
    <3>2. PICK v : v = parseDecomposition(answer).value
      OBVIOUS
    <3>3. v \in Seq(TaskNodes) /\ Len(v) \in 1..MaxSubtasks /\ Distinct(v) /\ Ordered(v)
      BY <3>1, <3>2, ParseOrders
    <3>4. PICK new : new = [task |-> t, at |-> asked, tasks |-> v]
      OBVIOUS
    <3>5. new.task = t /\ new.tasks = v
      BY <3>4
    <3>6. PlanOK(new)
      BY <3>3, <3>5 DEF PlanOK
    <3> QED
      BY <3>1, <3>2, <3>4, <3>6, <1>1 DEF AskedOK
  <2> QED
    BY <2>1, <2>2
<1>6. AskedOK'
  BY <1>1, <1>2, <1>4, <1>5 DEF AskedOK, PlanOK
<1> QED
  BY <1>2, <1>6, ExecKept DEF PlanInv

\* A plan is written, or its write fails.
LEMMA WriteInv ==
    ASSUME PlanInv, NEW p \in writing, writeDecomposition(p) PROVE PlanInv'
<1>1. AskedOK /\ UNCHANGED <<engine, asking, asked, exec, inFlight, shuttingDown>>
      /\ writing' \cup plans' \subseteq writing \cup plans
  BY DEF PlanInv, writeDecomposition
<1>2. AskedOK'
  BY <1>1 DEF AskedOK, PlanOK
<1> QED
  BY <1>1, <1>2, ExecKept DEF PlanInv

\* A plan is recalled: it is in order, so its execution begins.
LEMMA ExecuteInv ==
    ASSUME PlanInv, NEW q \in TaskIds, executeDecomposition(q) PROVE PlanInv'
<1>1. /\ exec.phase = "idle" /\ UNCHANGED <<engine, asking, asked, writing, plans, inFlight, shuttingDown>>
  BY DEF executeDecomposition
<1>2. inFlight' = {}
  BY <1>1 DEF PlanInv, InFlightOK, Active
<1>3. AskedOK /\ AskedOK'
  BY <1>1, AskedKept DEF PlanInv
<1>4. ASSUME NEW why \in {"refused", "no plan"}, exec' = [NoCall EXCEPT !.phase = why, !.task = {q}]
      PROVE  PlanInv'
  <2>1. /\ exec'.phase = why
        /\ exec' = [phase |-> exec'.phase, task |-> exec'.task, order |-> exec'.order, pos |-> exec'.pos,
                    completed |-> exec'.completed, results |-> exec'.results, attempt |-> exec'.attempt]
    BY <1>4 DEF NoCall
  <2>2. ExecOK'
    BY <2>1, <1>4 DEF ExecOK, Active
  <2>3. InFlightOK'
    BY <2>1, <1>2, <1>4 DEF InFlightOK
  <2> QED
    BY <2>2, <2>3, <1>3 DEF PlanInv
<1>5. ASSUME NEW p \in recallDecomposition(q),
             Allows(DefaultModel, {p.tasks[i].language : i \in DOMAIN p.tasks}),
             exec' = [NoCall EXCEPT !.phase = "next", !.task = {q}, !.pos = 1,
                                    !.order = topologicalSort(p.tasks).value]
      PROVE  PlanInv'
  <2>1. PlanOK(p)
    BY <1>3 DEF recallDecomposition, Newest, AskedOK
  <2>2. PICK v : v = topologicalSort(p.tasks).value
    OBVIOUS
  <2>3. /\ v \in Seq(TaskNodes) /\ Len(v) = Len(p.tasks) /\ Len(v) \in 1..MaxSubtasks
        /\ Distinct(v) /\ Ordered(v) /\ \A k \in DOMAIN v : \E i \in DOMAIN p.tasks : v[k] = p.tasks[i]
    <3>1. topologicalSort(p.tasks).ok
      BY <2>1, SortSucceeds, OrderedIsAcyclic DEF PlanOK
    <3> QED
      BY <2>1, <2>2, <3>1, SortOrders DEF PlanOK
  <2>4. /\ exec' = [phase |-> "next", task |-> {q}, order |-> v, pos |-> 1,
                    completed |-> << >>, results |-> {}, attempt |-> 0]
    BY <1>5, <2>2 DEF NoCall
  <2>5. \A k \in DOMAIN v : \A e \in engine : checkTool(e, v[k].language)
    BY <2>3, <1>5 DEF Allows
  <2>6. /\ exec'.phase = "next" /\ exec'.order = v /\ exec'.pos = 1 /\ exec'.completed = << >>
        /\ exec'.results = {} /\ Len(v) \in Nat /\ 1 <= Len(v)
    BY <2>3, <2>4, PlanAssumption
  <2>7. OrderOK'
    BY <2>3, <2>5, <2>6, <1>1 DEF OrderOK, checkTool
  <2>8. CompletedOK' /\ Accounted'
    <3>1. DOMAIN << >> = {} /\ Len(<< >>) = 0 /\ << >> \in Seq([id : SubtaskIds, ok : BOOLEAN])
      BY EmptySeq
    <3> QED
      BY <3>1, <2>6 DEF CompletedOK, Accounted
  <2>9. ExecOK'
    BY <2>4, <2>6, <2>7, <2>8 DEF ExecOK, Active
  <2>10. InFlightOK'
    BY <2>6, <1>2 DEF InFlightOK
  <2> QED
    BY <2>9, <2>10, <1>3 DEF PlanInv
<1>6. \A p \in recallDecomposition(q) : topologicalSort(p.tasks).ok
  <2>1. \A p \in recallDecomposition(q) : PlanOK(p)
    BY <1>3 DEF recallDecomposition, Newest, AskedOK
  <2> QED
    BY <2>1, SortSucceeds, OrderedIsAcyclic DEF PlanOK
<1> QED
  BY <1>4, <1>5, <1>6 DEF executeDecomposition

\* The loop is at a node of its plan.
LEMMA AtNode ==
    ASSUME PlanInv, exec.phase \in {"next", "waiting"}
    PROVE  /\ OrderOK /\ CompletedOK /\ Accounted
           /\ Len(exec.order) \in Nat /\ DOMAIN exec.order = 1..Len(exec.order)
           /\ exec.pos \in 1..Len(exec.order) /\ Len(exec.completed) = exec.pos - 1
           /\ DOMAIN exec.completed = 1..(exec.pos - 1)
           /\ Node \in TaskNodes /\ Node = exec.order[exec.pos]
           /\ exec = [phase |-> exec.phase, task |-> exec.task, order |-> exec.order, pos |-> exec.pos,
                      completed |-> exec.completed, results |-> exec.results, attempt |-> exec.attempt]
<1>1. /\ OrderOK /\ CompletedOK /\ Accounted /\ exec.pos <= Len(exec.order)
      /\ exec = [phase |-> exec.phase, task |-> exec.task, order |-> exec.order, pos |-> exec.pos,
                 completed |-> exec.completed, results |-> exec.results, attempt |-> exec.attempt]
  BY DEF PlanInv, ExecOK, Active
<1>2. /\ exec.order \in Seq(TaskNodes) /\ exec.pos \in 1..(Len(exec.order) + 1)
      /\ Len(exec.completed) = exec.pos - 1
  BY <1>1 DEF OrderOK, CompletedOK
<1>3. Len(exec.order) \in Nat /\ DOMAIN exec.order = 1..Len(exec.order) /\ exec.pos \in 1..Len(exec.order)
  BY <1>1, <1>2
<1>4. exec.completed \in Seq([id : SubtaskIds, ok : BOOLEAN])
  BY <1>1 DEF CompletedOK
<1>5. DOMAIN exec.completed = 1..Len(exec.completed)
  BY <1>4
<1>6. Node \in TaskNodes /\ Node = exec.order[exec.pos]
  BY <1>2, <1>3 DEF Node
<1> QED
  BY <1>1, <1>2, <1>3, <1>5, <1>6

\* A node of which every dependency succeeded has none that failed.
LEMMA DoneNotFailed ==
    ASSUME PlanInv, exec.phase \in {"next", "waiting"}, NEW n, Done(n)
    PROVE  FailedDependencies(n) = {}
<1>1. SUFFICES ASSUME NEW i \in DOMAIN n.dependsOn, Failed(n.dependsOn[i]) PROVE FALSE
  BY DEF FailedDependencies
<1>2. PICK d : d = n.dependsOn[i]
  OBVIOUS
<1>3. PICK k \in DOMAIN exec.completed : exec.completed[k] = [id |-> d, ok |-> TRUE]
  BY <1>1, <1>2 DEF Done, dependencies
<1>4. PICK j \in DOMAIN exec.completed : exec.completed[j].id = d /\ ~ exec.completed[j].ok
  BY <1>1, <1>2 DEF Failed
<1>5. exec.completed[k].id = d /\ exec.completed[k].ok = TRUE
  BY <1>3
<1>6. k = j
  <2>1. exec.order[k].id = exec.order[j].id
    BY <1>3, <1>4, <1>5, AtNode DEF CompletedOK
  <2>2. k \in DOMAIN exec.order /\ j \in DOMAIN exec.order
    BY AtNode
  <2> QED
    BY <2>1, <2>2, AtNode DEF OrderOK, Distinct
<1> QED
  BY <1>4, <1>5, <1>6

\* The dependencies of the next node are completed; if none failed, they succeeded.
LEMMA DependenciesMet ==
    ASSUME PlanInv, exec.phase \in {"next", "waiting"}
    PROVE  /\ dependencies(Node) \subseteq Ids(exec.completed)
           /\ FailedDependencies(Node) = {} => Done(Node)
<1>1. ASSUME NEW d \in dependencies(Node)
      PROVE  \E j \in DOMAIN exec.completed : exec.completed[j].id = d
  <2>1. dependencies(exec.order[exec.pos]) \subseteq {exec.order[j].id : j \in 1..(exec.pos - 1)}
    BY AtNode DEF OrderOK, Ordered
  <2>2. PICK j \in 1..(exec.pos - 1) : exec.order[j].id = d
    BY <1>1, <2>1, AtNode
  <2> QED
    BY <2>2, AtNode DEF CompletedOK
<1>2. ASSUME FailedDependencies(Node) = {}, NEW d \in dependencies(Node)
      PROVE  \E k \in DOMAIN exec.completed : exec.completed[k] = [id |-> d, ok |-> TRUE]
  <2>1. PICK j \in DOMAIN exec.completed : exec.completed[j].id = d
    BY <1>1, <1>2
  <2>2. ~ Failed(d)
    BY <1>2 DEF FailedDependencies, dependencies
  <2>3. exec.completed[j].ok
    BY <2>1, <2>2 DEF Failed
  <2>4. exec.completed[j] \in [id : SubtaskIds, ok : BOOLEAN]
    <3>1. PICK R : R = [id : SubtaskIds, ok : BOOLEAN]
      OBVIOUS
    <3>2. exec.completed \in Seq(R)
      BY <3>1, AtNode DEF CompletedOK
    <3>3. exec.completed[j] \in R
      BY <2>1, <3>2
    <3> QED
      BY <3>1, <3>3
  <2>5. PICK c : c = exec.completed[j]
    OBVIOUS
  <2>6. c.ok = TRUE /\ c.id = d /\ c = [id |-> c.id, ok |-> c.ok]
    BY <2>1, <2>3, <2>4, <2>5
  <2> QED
    BY <2>1, <2>5, <2>6
<1> QED
  BY <1>1, <1>2 DEF Ids, Done

\* A node gets its results, and the loop goes on.
LEMMA CompletedKeeps ==
    ASSUME PlanInv, exec.phase \in {"next", "waiting"}, engine' = engine, NEW rs, NEW ok \in BOOLEAN,
           exec' = Completed(rs, ok),
           IF FailedDependencies(Node) = {} THEN rs = Ran(Node, ok)
           ELSE rs = Skipped(Node) /\ ok = FALSE
    PROVE  /\ ExecOK' /\ exec'.order = exec.order /\ exec'.phase \in {"next", "answered"}
           /\ DOMAIN exec.completed \subseteq DOMAIN exec'.completed
           /\ \A k \in DOMAIN exec.completed : exec'.completed[k] = exec.completed[k]
<1>1. /\ OrderOK /\ CompletedOK /\ Accounted
      /\ Len(exec.order) \in Nat /\ DOMAIN exec.order = 1..Len(exec.order)
      /\ exec.pos \in 1..Len(exec.order) /\ Len(exec.completed) = exec.pos - 1
      /\ DOMAIN exec.completed = 1..(exec.pos - 1)
      /\ Node \in TaskNodes /\ Node = exec.order[exec.pos]
      /\ exec = [phase |-> exec.phase, task |-> exec.task, order |-> exec.order, pos |-> exec.pos,
                 completed |-> exec.completed, results |-> exec.results, attempt |-> exec.attempt]
  BY AtNode
<1>2. PICK ph : ph = IF exec.pos = Len(exec.order) THEN "answered" ELSE "next"
  OBVIOUS
<1>3. PICK c : c = [id |-> Node.id, ok |-> ok]
  OBVIOUS
<1>4. PICK cs : cs = Append(exec.completed, c)
  OBVIOUS
<1>5. PICK us : us = exec.results \cup rs
  OBVIOUS
<1>6. PICK x : x = exec.pos + 1
  OBVIOUS
<1>7. exec' = [exec EXCEPT !.phase = ph, !.pos = x, !.attempt = 0, !.results = us, !.completed = cs]
  BY <1>1, <1>2, <1>3, <1>4, <1>5, <1>6 DEF Completed
<1>8. /\ exec' = [phase |-> ph, task |-> exec.task, order |-> exec.order, pos |-> x,
                  completed |-> cs, results |-> us, attempt |-> 0]
  BY <1>1, <1>7
<1>9. /\ exec'.phase = ph /\ exec'.task = exec.task /\ exec'.order = exec.order /\ exec'.pos = x
      /\ exec'.completed = cs /\ exec'.results = us /\ exec'.attempt = 0
  BY <1>8
<1>10. c.id = Node.id /\ c.ok = ok /\ c \in [id : SubtaskIds, ok : BOOLEAN]
  <2>1. Node.id \in SubtaskIds
    BY <1>1 DEF TaskNodes
  <2> QED
    BY <2>1, <1>3
<1>11. /\ cs \in Seq([id : SubtaskIds, ok : BOOLEAN]) /\ Len(cs) = exec.pos /\ DOMAIN cs = 1..exec.pos
       /\ cs[exec.pos] = c /\ \A k \in 1..(exec.pos - 1) : cs[k] = exec.completed[k]
  <2>1. PICK R : R = [id : SubtaskIds, ok : BOOLEAN]
    OBVIOUS
  <2>2. exec.completed \in Seq(R) /\ c \in R
    BY <2>1, <1>1, <1>10 DEF CompletedOK
  <2>3. exec.pos - 1 + 1 = exec.pos
    BY <1>1
  <2>4. cs \in Seq(R) /\ Len(cs) = exec.pos
    BY <2>2, <2>3, <1>1, <1>4
  <2>5. cs[exec.pos] = c /\ \A k \in 1..(exec.pos - 1) : cs[k] = exec.completed[k]
    BY <2>2, <2>3, <1>1, <1>4
  <2>6. DOMAIN cs = 1..exec.pos
    BY <2>4
  <2> QED
    BY <2>1, <2>4, <2>5, <2>6
<1>12. OrderOK'
  <2>1. x \in 1..(Len(exec.order) + 1)
    BY <1>1, <1>6
  <2> QED
    BY <2>1, <1>1, <1>9 DEF OrderOK, checkTool
<1>13. CompletedOK'
  <2>1. Len(cs) = x - 1
    BY <1>1, <1>6, <1>11
  <2>2. \A k \in 1..exec.pos : cs[k].id = exec.order[k].id
    <3>1. ASSUME NEW k \in 1..exec.pos PROVE cs[k].id = exec.order[k].id
      <4>1. CASE k = exec.pos
        BY <4>1, <1>1, <1>10, <1>11
      <4>2. CASE k # exec.pos
        <5>1. k \in 1..(exec.pos - 1)
          BY <4>2, <1>1
        <5> QED
          BY <5>1, <1>1, <1>11 DEF CompletedOK
      <4> QED
        BY <4>1, <4>2
    <3> QED
      BY <3>1
  <2> QED
    BY <2>1, <2>2, <1>9, <1>11 DEF CompletedOK
<1>14. \A j \in 1..(exec.pos - 1) : exec.order[j].id # Node.id
  <2>1. \A j \in 1..(exec.pos - 1) : j \in DOMAIN exec.order /\ j # exec.pos
    BY <1>1
  <2> QED
    BY <2>1, <1>1 DEF OrderOK, Distinct
<1>15. ASSUME NEW k \in 1..exec.pos
       PROVE  FailedDependencies(exec.order[k])' = FailedDependencies(exec.order[k])
  <2>1. PICK n : n = exec.order[k]
    OBVIOUS
  <2>2. ASSUME NEW d \in dependencies(n) PROVE Failed(d)' <=> Failed(d)
    <3>1. PICK j \in 1..(k - 1) : exec.order[j].id = d
      <4>1. k \in DOMAIN exec.order
        BY <1>1, <1>15
      <4>2. dependencies(exec.order[k]) \subseteq {exec.order[j].id : j \in 1..(k - 1)}
        BY <4>1, <1>1 DEF OrderOK, Ordered
      <4> QED
        BY <4>2, <2>1, <2>2
    <3>2. j \in 1..(exec.pos - 1)
      BY <3>1, <1>1
    <3>3. d # c.id
      BY <3>1, <3>2, <1>10, <1>14
    <3>4. \A m \in 1..exec.pos : m = exec.pos \/ m \in 1..(exec.pos - 1)
      BY <1>1
    <3>5. \A m \in 1..(exec.pos - 1) : m \in 1..exec.pos
      BY <1>1
    <3> QED
      BY <3>3, <3>4, <3>5, <1>1, <1>9, <1>11 DEF Failed
  <2>3. FailedDependencies(n)' = FailedDependencies(n)
    BY <2>2 DEF FailedDependencies, dependencies
  <2> QED
    BY <2>1, <2>3, <1>9 DEF FailedDependencies
<1>16. \A r \in rs : r.node = Node.id
  BY DEF Ran, Skipped
<1>17. Accounted'
  <2>1. ASSUME NEW r \in us PROVE \E k \in 1..exec.pos : r.node = exec.order[k].id
    <3>1. CASE r \in rs
      BY <3>1, <1>1, <1>16
    <3>2. CASE r \in exec.results
      <4>1. PICK k \in 1..(exec.pos - 1) : r.node = exec.order[k].id
        BY <3>2, <1>1 DEF Accounted
      <4>2. k \in 1..exec.pos
        BY <1>1
      <4> QED
        BY <4>1, <4>2
    <3> QED
      BY <3>1, <3>2, <2>1, <1>5
  <2>2. ASSUME NEW k \in 1..exec.pos
        PROVE  IF FailedDependencies(exec.order[k])' = {}
               THEN ResultsOf(k)' = Ran(exec.order[k], cs[k].ok)
               ELSE ResultsOf(k)' = Skipped(exec.order[k])' /\ cs[k].ok = FALSE
    <3>1. Skipped(exec.order[k])' = Skipped(exec.order[k])
      BY <2>2, <1>9, <1>15 DEF Skipped
    <3>2. ResultsOf(k)' = {r \in us : r.node = exec.order[k].id}
      BY <1>9 DEF ResultsOf
    <3>3. CASE k = exec.pos
      <4>1. \A r \in exec.results : r.node # Node.id
        BY <1>1, <1>14 DEF Accounted
      <4>2. ResultsOf(k)' = rs
        BY <3>2, <3>3, <4>1, <1>1, <1>5, <1>16
      <4>3. cs[k].ok = ok /\ exec.order[k] = Node
        BY <3>3, <1>1, <1>10, <1>11
      <4> QED
        BY <4>2, <4>3, <3>1, <1>15, <2>2
    <3>4. CASE k # exec.pos
      <4>1. k \in 1..(exec.pos - 1)
        BY <3>4, <1>1
      <4>2. ResultsOf(k)' = ResultsOf(k)
        BY <3>2, <4>1, <1>5, <1>14, <1>16 DEF ResultsOf
      <4>3. cs[k] = exec.completed[k]
        BY <4>1, <1>11
      <4> QED
        BY <4>1, <4>2, <4>3, <3>1, <1>1, <1>15, <2>2 DEF Accounted
    <3> QED
      BY <3>3, <3>4
  <2>3. \A r \in exec'.results : \E k \in DOMAIN exec'.completed : r.node = exec'.order[k].id
    BY <2>1, <1>9, <1>11
  <2>4. \A k \in DOMAIN exec'.completed :
          IF FailedDependencies(exec.order[k])' = {}
          THEN ResultsOf(k)' = Ran(exec'.order[k], exec'.completed[k].ok)
          ELSE ResultsOf(k)' = Skipped(exec.order[k])' /\ exec'.completed[k].ok = FALSE
    BY <2>2, <1>9, <1>11
  <2> QED
    BY <2>3, <2>4 DEF Accounted, Ran
<1>18. ExecOK'
  <2>1. ph \in {"next", "answered"}
    BY <1>2
  <2>2. ph = "next" => x <= Len(exec.order)
    BY <1>1, <1>2, <1>6
  <2>3. ph = "answered" => x = Len(exec.order) + 1
    BY <1>1, <1>2, <1>6
  <2> QED
    BY <2>1, <2>2, <2>3, <1>8, <1>9, <1>12, <1>13, <1>17 DEF ExecOK, Active
<1>19. 1..(exec.pos - 1) \subseteq 1..exec.pos
  BY <1>1
<1> QED
  BY <1>1, <1>2, <1>9, <1>11, <1>18, <1>19

\* Attempts that timed out, of nodes whose dependencies succeeded.
Beside(S) ==
    \A b \in S :
        /\ b = [node |-> b.node, try |-> b.try, refused |-> b.refused, late |-> b.late]
        /\ b.try \in {1, 2} /\ b.late = TRUE
        /\ \E k \in DOMAIN exec.order : b.node = exec.order[k]
        /\ Done(b.node)

\* A node gets its results, and only late attempts run on.
LEMMA GoesOn ==
    ASSUME PlanInv, exec.phase \in {"next", "waiting"}, engine' = engine, NEW rs, NEW ok \in BOOLEAN,
           exec' = Completed(rs, ok),
           IF FailedDependencies(Node) = {} THEN rs = Ran(Node, ok)
           ELSE rs = Skipped(Node) /\ ok = FALSE,
           Beside(inFlight')
    PROVE  ExecOK' /\ InFlightOK'
<1>1. /\ ExecOK' /\ exec'.order = exec.order /\ exec'.phase \in {"next", "answered"}
      /\ DOMAIN exec.completed \subseteq DOMAIN exec'.completed
      /\ \A k \in DOMAIN exec.completed : exec'.completed[k] = exec.completed[k]
  BY CompletedKeeps
<1>2. ASSUME NEW a \in inFlight' PROVE AttemptOK(a)' /\ a.late = TRUE
  <2>1. /\ a = [node |-> a.node, try |-> a.try, refused |-> a.refused, late |-> a.late]
        /\ a.try \in {1, 2} /\ a.late = TRUE
        /\ \E k \in DOMAIN exec.order : a.node = exec.order[k]
        /\ Done(a.node)
    BY <1>2 DEF Beside
  <2>2. Done(a.node)'
    <3>1. SUFFICES ASSUME NEW d \in dependencies(a.node)
                   PROVE  \E k \in DOMAIN exec'.completed : exec'.completed[k] = [id |-> d, ok |-> TRUE]
      BY DEF Done, dependencies
    <3>2. PICK k \in DOMAIN exec.completed : exec.completed[k] = [id |-> d, ok |-> TRUE]
      BY <2>1, <3>1 DEF Done
    <3> QED
      BY <3>2, <1>1
  <2> QED
    BY <2>1, <2>2, <1>1 DEF AttemptOK
<1> QED
  BY <1>1, <1>2 DEF InFlightOK, Active

\* An attempt of the node begins, and only late attempts run beside it.
LEMMA Waits ==
    ASSUME PlanInv, exec.phase \in {"next", "waiting"}, engine' = engine, Done(Node), NEW k \in {1, 2},
           exec' = [exec EXCEPT !.phase = "waiting", !.attempt = k],
           NEW S, Beside(S), inFlight' = S \cup {Attempt(k)}
    PROVE  ExecOK' /\ InFlightOK'
<1>1. /\ OrderOK /\ CompletedOK /\ Accounted
      /\ Len(exec.order) \in Nat /\ DOMAIN exec.order = 1..Len(exec.order)
      /\ exec.pos \in 1..Len(exec.order) /\ Node = exec.order[exec.pos]
      /\ exec = [phase |-> exec.phase, task |-> exec.task, order |-> exec.order, pos |-> exec.pos,
                 completed |-> exec.completed, results |-> exec.results, attempt |-> exec.attempt]
  BY AtNode
<1>2. exec' = [phase |-> "waiting", task |-> exec.task, order |-> exec.order, pos |-> exec.pos,
               completed |-> exec.completed, results |-> exec.results, attempt |-> k]
  BY <1>1
<1>3. /\ exec'.phase = "waiting" /\ exec'.order = exec.order /\ exec'.pos = exec.pos /\ exec'.attempt = k
      /\ exec'.completed = exec.completed /\ exec'.results = exec.results /\ exec'.task = exec.task
  BY <1>2
<1>4. OrderOK' /\ CompletedOK' /\ Accounted'
  <2>1. OrderOK'
    BY <1>1, <1>3 DEF OrderOK
  <2>2. CompletedOK'
    BY <1>1, <1>3 DEF CompletedOK
  <2>3. Accounted'
    BY <1>1, <1>3 DEF Accounted, ResultsOf, FailedDependencies, Failed, Skipped
  <2> QED
    BY <2>1, <2>2, <2>3
<1>5. ExecOK'
  <2>1. exec.pos <= Len(exec.order)
    BY <1>1
  <2> QED
    BY <2>1, <1>2, <1>3, <1>4 DEF ExecOK, Active
<1>6. PICK new : new = Attempt(k)
  OBVIOUS
<1>7. /\ new = [node |-> new.node, try |-> new.try, refused |-> new.refused, late |-> new.late]
      /\ new.node = Node /\ new.try = k /\ new.late = FALSE
  BY <1>6 DEF Attempt
<1>8. Node' = Node
  BY <1>3 DEF Node
<1>9. Awaited(new)'
  BY <1>3, <1>7, <1>8 DEF Awaited
<1>10. AttemptOK(new)'
  <2>1. \E j \in DOMAIN exec'.order : new.node = exec'.order[j]
    BY <1>1, <1>3, <1>7
  <2>2. Done(new.node)'
    BY <1>3, <1>7 DEF Done
  <2>3. new.try \in {1, 2} /\ new.late \in BOOLEAN
    BY <1>7
  <2> QED
    BY <2>1, <2>2, <2>3, <1>7, <1>9 DEF AttemptOK
<1>11. ASSUME NEW a \in S PROVE AttemptOK(a)' /\ a.late = TRUE
  <2>1. /\ a = [node |-> a.node, try |-> a.try, refused |-> a.refused, late |-> a.late]
        /\ a.try \in {1, 2} /\ a.late = TRUE
        /\ \E j \in DOMAIN exec.order : a.node = exec.order[j]
        /\ Done(a.node)
    BY <1>11 DEF Beside
  <2>2. Done(a.node)'
    BY <2>1, <1>3 DEF Done
  <2> QED
    BY <2>1, <2>2, <1>3 DEF AttemptOK
<1>12. inFlight' = S \cup {new}
  BY <1>6
<1> QED
  BY <1>3, <1>5, <1>9, <1>10, <1>11, <1>12 DEF InFlightOK, Active

\* What is left beside the attempt that is waited for is late.
LEMMA RestIsLate ==
    ASSUME PlanInv, NEW a \in inFlight, Awaited(a)
    PROVE  /\ exec.phase = "waiting" /\ Done(Node) /\ FailedDependencies(Node) = {}
           /\ exec.attempt \in {1, 2}
           /\ Beside(inFlight \ {a}) /\ Beside((inFlight \ {a}) \cup {[a EXCEPT !.late = TRUE]})
<1>1. exec.phase = "waiting" /\ a.node = Node /\ ~ a.late
  BY DEF Awaited
<1>2. AttemptOK(a) /\ exec.attempt \in {1, 2}
  BY <1>1 DEF PlanInv, InFlightOK, ExecOK
<1>3. Done(Node)
  BY <1>1, <1>2 DEF AttemptOK
<1>4. Beside(inFlight \ {a})
  <2>1. ASSUME NEW b \in inFlight \ {a} PROVE AttemptOK(b) /\ b.late
    BY <2>1, <1>1 DEF PlanInv, InFlightOK
  <2>2. ASSUME NEW b \in inFlight \ {a} PROVE b.late = TRUE
    BY <2>1, <2>2 DEF AttemptOK
  <2> QED
    BY <2>1, <2>2 DEF Beside, AttemptOK
<1>5. PICK l : l = [a EXCEPT !.late = TRUE]
  OBVIOUS
<1>6. a = [node |-> a.node, try |-> a.try, refused |-> a.refused, late |-> a.late]
  BY <1>2 DEF AttemptOK
<1>7. /\ l = [node |-> l.node, try |-> l.try, refused |-> l.refused, late |-> l.late]
      /\ l.node = a.node /\ l.try = a.try /\ l.late = TRUE
  BY <1>5, <1>6
<1>8. Beside({l})
  BY <1>2, <1>7 DEF Beside, AttemptOK
<1>9. Beside((inFlight \ {a}) \cup {l})
  BY <1>4, <1>8 DEF Beside
<1> QED
  BY <1>1, <1>2, <1>3, <1>4, <1>5, <1>9, DoneNotFailed

\* The loop comes to a node: its dependencies are completed, so it is skipped or run.
LEMMA NextSubtaskInv ==
    ASSUME PlanInv, NextSubtask PROVE PlanInv'
<1>1. exec.phase = "next" /\ UNCHANGED <<engine, asking, asked, writing, plans, shuttingDown>>
  BY DEF NextSubtask
<1>2. AskedOK'
  BY <1>1, AskedKept
<1>3. /\ dependencies(Node) \subseteq Ids(exec.completed)
      /\ FailedDependencies(Node) = {} => Done(Node)
  BY <1>1, DependenciesMet
<1>4. Beside(inFlight)
  <2>1. ASSUME NEW b \in inFlight PROVE AttemptOK(b) /\ b.late
    BY <2>1, <1>1 DEF PlanInv, InFlightOK, AttemptOK, Awaited
  <2>2. ASSUME NEW b \in inFlight PROVE b.late = TRUE
    BY <2>1, <2>2 DEF AttemptOK
  <2> QED
    BY <2>1, <2>2 DEF Beside, AttemptOK
<1>5. CASE FailedDependencies(Node) # {}
  <2>1. exec' = Completed(Skipped(Node), FALSE) /\ inFlight' = inFlight
    BY <1>3, <1>5 DEF NextSubtask
  <2> QED
    BY <2>1, <1>1, <1>2, <1>4, <1>5, GoesOn DEF PlanInv
<1>6. CASE FailedDependencies(Node) = {}
  <2>1. /\ exec' = [exec EXCEPT !.phase = "waiting", !.attempt = 1]
        /\ inFlight' = inFlight \cup {Attempt(1)}
    BY <1>3, <1>6 DEF NextSubtask
  <2> QED
    BY <2>1, <1>1, <1>2, <1>3, <1>4, <1>6, Waits DEF PlanInv
<1> QED
  BY <1>5, <1>6

\* The attempt that is waited for fails: it is repeated, or the node has failed.
LEMMA AttemptFailsKeeps ==
    ASSUME PlanInv, NEW a \in inFlight, Awaited(a), engine' = engine,
           NEW others, Beside(others), AttemptFails(others)
    PROVE  ExecOK' /\ InFlightOK'
<1>1. /\ exec.phase = "waiting" /\ Done(Node) /\ FailedDependencies(Node) = {}
      /\ exec.attempt \in {1, 2}
  BY RestIsLate
<1>2. CASE exec.attempt = 1
  <2>1. exec' = [exec EXCEPT !.attempt = 2] /\ inFlight' = others \cup {Attempt(2)}
    BY <1>2 DEF AttemptFails
  <2>2. exec' = [exec EXCEPT !.phase = "waiting", !.attempt = 2]
    BY <2>1, <1>1, AtNode
  <2> QED
    BY <2>1, <2>2, <1>1, Waits
<1>3. CASE exec.attempt # 1
  <2>1. exec' = Completed(Ran(Node, FALSE), FALSE) /\ inFlight' = others
    BY <1>3 DEF AttemptFails
  <2> QED
    BY <2>1, <1>1, GoesOn
<1> QED
  BY <1>2, <1>3

\* The attempt that is waited for ends, or its timer rings.
LEMMA AwaitedEndsInv ==
    ASSUME PlanInv, AwaitedEnds PROVE PlanInv'
<1>1. PICK a \in inFlight :
         /\ Awaited(a)
         /\ \/ \E v \in {"pass", "warn", "fail", "unknown", "error"} : DelegateEnds(a, v)
            \/ AttemptTimesOut(a)
  BY DEF AwaitedEnds
<1>2. UNCHANGED <<engine, asking, asked, writing, plans, shuttingDown>>
  BY <1>1 DEF DelegateEnds, AttemptTimesOut
<1>3. AskedOK'
  BY <1>2, AskedKept
<1>4. /\ exec.phase = "waiting" /\ FailedDependencies(Node) = {}
      /\ Beside(inFlight \ {a}) /\ Beside((inFlight \ {a}) \cup {[a EXCEPT !.late = TRUE]})
  BY <1>1, RestIsLate
<1>5. CASE AttemptTimesOut(a)
  BY <1>1, <1>2, <1>3, <1>4, <1>5, AttemptFailsKeeps DEF AttemptTimesOut, PlanInv
<1>6. ASSUME NEW v, DelegateEnds(a, v) PROVE PlanInv'
  <2>1. CASE v = "error"
    <3>1. AttemptFails(inFlight \ {a})
      BY <1>1, <1>6, <2>1 DEF DelegateEnds
    <3> QED
      BY <3>1, <1>1, <1>2, <1>3, <1>4, AttemptFailsKeeps DEF PlanInv
  <2>2. CASE v # "error"
    <3>1. PICK ok \in BOOLEAN : ok <=> v \in {"pass", "warn"}
      OBVIOUS
    <3>2. exec' = Completed(Ran(Node, ok), ok) /\ inFlight' = inFlight \ {a}
      <4>1. ok = (v \in {"pass", "warn"})
        BY <3>1
      <4> QED
        BY <4>1, <1>1, <1>6, <2>2 DEF DelegateEnds
    <3> QED
      BY <3>2, <1>2, <1>3, <1>4, GoesOn DEF PlanInv
  <2> QED
    BY <2>1, <2>2
<1> QED
  BY <1>1, <1>5, <1>6

\* A late delegate ends and nobody looks at it.
LEMMA LateEndsInv ==
    ASSUME PlanInv, NEW a \in inFlight, ~ Awaited(a), DelegateEnds(a, "error") PROVE PlanInv'
<1>1. /\ UNCHANGED <<engine, asking, asked, writing, plans, shuttingDown, exec>>
      /\ inFlight' = inFlight \ {a}
  BY DEF DelegateEnds
<1>2. AskedOK'
  BY <1>1, AskedKept
<1>3. OrderOK' <=> OrderOK
  BY <1>1 DEF OrderOK
<1>4. CompletedOK' <=> CompletedOK
  BY <1>1 DEF CompletedOK
<1>5. Accounted' <=> Accounted
  BY <1>1 DEF Accounted, ResultsOf, FailedDependencies, Failed, Skipped
<1>6. ExecOK'
  BY <1>1, <1>3, <1>4, <1>5 DEF PlanInv, ExecOK
<1>7. \A b : (AttemptOK(b)' <=> AttemptOK(b)) /\ (Awaited(b)' <=> Awaited(b))
  <2>1. \A b : AttemptOK(b)' <=> AttemptOK(b)
    BY <1>1 DEF AttemptOK, Done, Awaited, Node
  <2>2. \A b : Awaited(b)' <=> Awaited(b)
    BY <1>1 DEF Awaited, Node
  <2> QED
    BY <2>1, <2>2
<1>8. InFlightOK'
  BY <1>1, <1>7 DEF PlanInv, InFlightOK
<1> QED
  BY <1>2, <1>6, <1>8 DEF PlanInv

\* Every step keeps the invariant.
LEMMA PlanNextInv ==
    ASSUME PlanInv, [PlanNext]_planVars PROVE PlanInv'
<1>1. CASE UNCHANGED planVars
  BY <1>1, AskedKept, ExecKept DEF planVars, PlanInv
<1>2. CASE ShutdownBegins
  BY <1>2, AskedKept, ExecKept DEF ShutdownBegins, PlanInv
<1>3. CASE PlanNext
  BY <1>2, <1>3, DecomposeInv, ModelAnswersInv, ExecuteInv, WriteInv, NextSubtaskInv, AwaitedEndsInv,
     LateEndsInv DEF PlanNext
<1> QED
  BY <1>1, <1>3

\* orchestrator-decompose.ts keeps its plans and their execution well formed.
THEOREM PlanTypeCorrect == PlanSpec => []PlanTypeOK
<1>1. PlanInit => PlanInv
  BY PlanInitInv
<1>2. PlanInv /\ [PlanNext]_planVars => PlanInv'
  BY PlanNextInv
<1>3. PlanInv => PlanTypeOK
  BY PlanInvImplies
<1> QED
  BY <1>1, <1>2, <1>3, PTL DEF PlanSpec

\* executeDecomposition runs a subtask only after all it depends on succeeded,
\* in a language the policy allows, and beside the attempt it waits for only
\* attempts that timed out are running.
THEOREM PlanIsFollowed == PlanSpec => []PlanFollowed
<1>1. PlanInit => PlanInv
  BY PlanInitInv
<1>2. PlanInv /\ [PlanNext]_planVars => PlanInv'
  BY PlanNextInv
<1>3. PlanInv => PlanFollowed
  BY PlanInvImplies
<1> QED
  BY <1>1, <1>2, <1>3, PTL DEF PlanSpec

\* Every plan that was stored can be executed to its end, whatever the model
\* answered, and an answered call has one result for each subtask that ran and
\* one for each failed dependency of a skipped one; those that succeeded are
\* counted once each.
THEOREM PlanIsAccounted == PlanSpec => []PlanAccounted
<1>1. PlanInit => PlanInv
  BY PlanInitInv
<1>2. PlanInv /\ [PlanNext]_planVars => PlanInv'
  BY PlanNextInv
<1>3. PlanInv => PlanAccounted
  BY PlanInvImplies
<1> QED
  BY <1>1, <1>2, <1>3, PTL DEF PlanSpec
-----------------------------------------------------------------------------
(* The sandbox *)

\* The base lists the command or, where it lists none, a tenant does.
Listed(i, command) ==
    \/ command \in i.base.allowedCommands
    \/ (i.base.allowedCommands = {} /\ \E t \in i.tenant : command \in t.allowedCommands)

\* What the gates have asserted of a call whose child was spawned.
Permitted(i) ==
    /\ i.base.shellAllowed /\ \A t \in i.tenant : t.shellAllowed
    /\ Listed(i, i.command)
    /\ i.enterprise => i.unsafeHostSandbox
    /\ i.secretEnv => i.unsafeHostSandbox /\ ~i.enterprise

\* The secrets in the child's environment are those of the call, which are
\* reported, and those of the parent, which somebody asked for.
SecretsOK ==
    /\ secrets \subseteq {"config", "parent"}
    /\ run = "idle" => secrets = {}
    /\ run # "error" => ("config" \in secrets <=> "secret" \in violations)
    /\ "parent" \in secrets => \A i \in invocation :
           i.parentSecrets /\ (i.unsafeHostSandbox \/ (i.inheritParentEnv /\ ~i.docker))

\* The child, the timer and what has been reported of them.
RunOK ==
    /\ run \in {"idle", "refused"} <=> child = "none"
    /\ run = "running" => child \in {"alive", "exited", "killed"}
    /\ child = "alive" => run = "running"
    /\ child = "none" => kid = {}
    /\ timer = "set" => run = "running"
    /\ timer = "rang" <=> "time" \in violations
    /\ timer = "rang" => child # "alive" /\ \A k \in kid : ~k.group
    /\ child = "killed" => timer = "rang"
    /\ child = "failed" => run = "error"
    /\ "command" \in violations => child = "failed"
    /\ "secret" \in violations => \E i \in invocation : i.secretEnv
    /\ run = "ok" => child \in {"exited", "killed"} /\ violations \subseteq {"output_size"}
    /\ run = "error" =>
          child = "failed" \/ timer = "rang" \/ "secret" \in violations

SandboxInv ==
    /\ Single(invocation) /\ invocation \subseteq Invocations
    /\ Single(kid)
    /\ run \in {"idle", "running", "refused", "ok", "error"}
    /\ child \in {"none", "alive", "exited", "killed", "failed"}
    /\ timer \in {"off", "set", "rang"}
    /\ output \in [Streams -> 0..MaxOutput + 1]
    /\ truncated \in BOOLEAN
    /\ violations \subseteq {"secret", "command", "output_size", "time"}
    /\ (\E s \in Streams : output[s] > MaxOutput) => truncated
    /\ run = "idle" => violations = {}
    /\ child # "none" => \A i \in invocation : Permitted(i)
    /\ RunOK
    /\ SecretsOK

USE SandboxAssumption
-----------------------------------------------------------------------------
(* The gates *)

\* A tenant's list that is cut to a base list without the command does not
\* have it either.
LEMMA MergeAllows ==
    ASSUME NEW i \in Invocations, NEW command, isCommandAllowed(command, Merged(i))
    PROVE  /\ i.base.shellAllowed /\ \A t \in i.tenant : t.shellAllowed
           /\ Listed(i, command)
<1>1. CASE i.tenant = {}
  BY <1>1 DEF isCommandAllowed, Merged, Listed
<1>2. CASE i.tenant # {}
  <2> DEFINE t == CHOOSE t \in i.tenant : TRUE
  <2>1. t \in i.tenant /\ \A u \in i.tenant : u = t
    BY <1>2
  <2>2. Merged(i) = mergeConstraints(i.base, t)
    BY <1>2 DEF Merged
  <2> HIDE DEF t
  <2>3. /\ mergeConstraints(i.base, t).shellAllowed = (i.base.shellAllowed /\ t.shellAllowed)
        /\ mergeConstraints(i.base, t).allowedCommands = Cut(i.base.allowedCommands, t.allowedCommands)
    BY DEF mergeConstraints
  <2>4. i.base.shellAllowed /\ t.shellAllowed
    BY <2>2, <2>3 DEF isCommandAllowed
  <2>5. command \in Cut(i.base.allowedCommands, t.allowedCommands)
    BY <2>2, <2>3 DEF isCommandAllowed
  <2> QED
    BY <2>1, <2>4, <2>5 DEF Cut, Listed
<1> QED
  BY <1>1, <1>2

\* A call that gets past the gates is permitted, with docker and without.
LEMMA GatesPermit ==
    ASSUME NEW i \in Invocations,
           IF i.docker THEN runDockerSandboxed(i, Merged(i))
           ELSE runSandboxed(i, i.command, i.paths, Merged(i))
    PROVE  Permitted(i)
<1>1. /\ isCommandAllowed(i.command, Merged(i))
      /\ i.enterprise => i.unsafeHostSandbox
      /\ i.secretEnv => i.unsafeHostSandbox /\ ~i.enterprise
  BY DEF runDockerSandboxed, runSandboxed
<1> QED
  BY <1>1, MergeAllows DEF Permitted
-----------------------------------------------------------------------------
(* The steps of a run *)

\* The initial state.
LEMMA SandboxInitInv == SandboxInit => SandboxInv
<1> SUFFICES ASSUME SandboxInit PROVE SandboxInv
  OBVIOUS
<1>1. output \in [Streams -> 0..MaxOutput + 1] /\ \A s \in Streams : output[s] = 0
  BY DEF SandboxInit
<1>2. \A s \in Streams : ~(output[s] > MaxOutput)
  BY <1>1
<1>3. RunOK
  BY DEF SandboxInit, RunOK
<1>4. Single(invocation) /\ Single(kid)
  BY DEF SandboxInit, Single
<1>5. SecretsOK
  BY DEF SandboxInit, SecretsOK
<1> QED
  BY <1>1, <1>2, <1>3, <1>4, <1>5 DEF SandboxInit, SandboxInv

\* A call is refused and leaves nothing, or runs because it is permitted.
LEMMA InvokeInv ==
    ASSUME SandboxInv, NEW i \in Invocations, Invoke(i)
    PROVE  SandboxInv'
<1>1. /\ run = "idle" /\ invocation' = {i} /\ UNCHANGED <<exitCode, kid, output, truncated>>
      /\ child = "none" /\ violations = {} /\ timer # "set" /\ timer # "rang"
  BY DEF Invoke, SandboxInv, RunOK
<1>2. Single(invocation') /\ invocation' \subseteq Invocations
  BY <1>1 DEF Single
<1>3. CASE run' = "running"
  <2>1. /\ child' = "alive" /\ timer' = "set" /\ violations' = IF i.secretEnv THEN {"secret"} ELSE {}
        /\ IF i.docker THEN runDockerSandboxed(i, Merged(i))
           ELSE runSandboxed(i, i.command, i.paths, Merged(i))
    BY <1>3 DEF Invoke
  <2>2. \A j \in invocation' : Permitted(j)
    BY <1>1, <2>1, GatesPermit
  <2>3. RunOK'
    BY <1>1, <1>3, <2>1 DEF SandboxInv, RunOK
  <2>4. secrets' = childEnv(i)
    BY <1>3 DEF Invoke
  <2>5. SecretsOK'
    BY <1>1, <1>3, <2>1, <2>4 DEF SecretsOK, childEnv, inheritParent
  <2> QED
    BY <1>1, <1>2, <1>3, <2>1, <2>2, <2>3, <2>5 DEF SandboxInv, Permitted
<1>4. CASE run' # "running"
  <2>1. run' = "refused" /\ UNCHANGED <<child, secrets, timer, violations>>
    BY <1>4 DEF Invoke
  <2>2. RunOK'
    BY <1>1, <2>1 DEF SandboxInv, RunOK
  <2>3. SecretsOK'
    BY <1>1, <2>1 DEF SandboxInv, SecretsOK
  <2> QED
    BY <1>1, <1>2, <2>1, <2>2, <2>3 DEF SandboxInv
<1> QED
  BY <1>3, <1>4

\* Output past the limit is marked, on whichever stream it comes.
LEMMA DataInv ==
    ASSUME SandboxInv, NEW s \in Streams, Data(s)
    PROVE  SandboxInv'
<1>1. /\ output' = [output EXCEPT ![s] = output[s] + 1] /\ output[s] <= MaxOutput
      /\ UNCHANGED <<invocation, run, child, secrets, exitCode, kid, timer>>
      /\ run = "running" /\ output[s] \in 0..MaxOutput
  BY DEF Data, SandboxInv
<1>2. /\ output' \in [Streams -> 0..MaxOutput + 1] /\ output'[s] = output[s] + 1
      /\ \A r \in Streams \ {s} : output'[r] = output[r]
  BY <1>1 DEF SandboxInv
<1>3. /\ truncated' \in BOOLEAN /\ (truncated => truncated')
      /\ output'[s] > MaxOutput => truncated'
      /\ violations' \in {violations, violations \cup {"output_size"}}
  BY DEF Data, SandboxInv
<1>4. (\E r \in Streams : output'[r] > MaxOutput) => truncated'
  BY <1>2, <1>3 DEF SandboxInv
<1>5. RunOK'
  BY <1>1, <1>3 DEF SandboxInv, RunOK
<1>6. SecretsOK'
  BY <1>1, <1>3 DEF SandboxInv, SecretsOK
<1> QED
  BY <1>1, <1>2, <1>3, <1>4, <1>5, <1>6 DEF SandboxInv, Single, Permitted

\* What the child, its forks, the timer and the event close do.
LEMMA LifeInv ==
    ASSUME SandboxInv,
           \/ SpawnError \/ KidEnds \/ TimeOut \/ Close
           \/ \E g, h \in BOOLEAN : Fork(g, h)
           \/ \E code \in {0, 1} : ChildExits(code)
    PROVE  SandboxInv'
<1>1. CASE SpawnError
  BY <1>1 DEF SandboxInv, RunOK, SecretsOK, SpawnError, Single, Permitted
<1>2. CASE KidEnds
  BY <1>2 DEF SandboxInv, RunOK, SecretsOK, KidEnds, Single, Permitted
<1>3. CASE TimeOut
  <2>1. Single(kid')
    BY <1>3 DEF SandboxInv, TimeOut, Single
  <2>2. RunOK'
    BY <1>3 DEF SandboxInv, TimeOut, RunOK
  <2>3. /\ UNCHANGED <<invocation, run, output, truncated>> /\ timer' = "rang"
        /\ violations' = violations \cup {"time"} /\ run = "running"
        /\ child' \in {"none", "alive", "exited", "killed", "failed"} /\ child # "none"
    BY <1>3 DEF SandboxInv, TimeOut, RunOK
  <2>4. SecretsOK'
    BY <1>3 DEF SandboxInv, TimeOut, SecretsOK
  <2> QED
    BY <2>1, <2>2, <2>3, <2>4 DEF SandboxInv, Single, Permitted
<1>4. CASE Close
  <2>1. RunOK'
    BY <1>4 DEF SandboxInv, Close, RunOK
  <2>2. SecretsOK'
    BY <1>4 DEF SandboxInv, Close, SecretsOK
  <2> QED
    BY <1>4, <2>1, <2>2 DEF SandboxInv, Close, Single, Permitted
<1>5. ASSUME NEW g \in BOOLEAN, NEW h \in BOOLEAN, Fork(g, h) PROVE SandboxInv'
  <2>1. Single(kid')
    BY <1>5 DEF Fork, Single
  <2>2. RunOK'
    BY <1>5 DEF SandboxInv, Fork, RunOK
  <2>3. SecretsOK'
    BY <1>5 DEF SandboxInv, Fork, SecretsOK
  <2> QED
    BY <1>5, <2>1, <2>2, <2>3 DEF SandboxInv, Fork, Single, Permitted
<1>6. ASSUME NEW code \in {0, 1}, ChildExits(code) PROVE SandboxInv'
  BY <1>6 DEF SandboxInv, RunOK, SecretsOK, ChildExits, Single, Permitted
<1> QED
  BY <1>1, <1>2, <1>3, <1>4, <1>5, <1>6

\* Every step keeps the invariant.
LEMMA SandboxNextInv == SandboxInv /\ [SandboxNext]_sandboxVars => SandboxInv'
<1> SUFFICES ASSUME SandboxInv, [SandboxNext]_sandboxVars PROVE SandboxInv'
  OBVIOUS
<1>1. CASE UNCHANGED sandboxVars
  BY <1>1 DEF sandboxVars, SandboxInv, RunOK, SecretsOK, Single, Permitted
<1>2. CASE SandboxNext
  BY <1>2, InvokeInv, DataInv, LifeInv DEF SandboxNext
<1> QED
  BY <1>1, <1>2

\* The specification keeps the invariant.
LEMMA SandboxInvariance == SandboxSpec => []SandboxInv
BY SandboxInitInv, SandboxNextInv, PTL DEF SandboxSpec

\* The invariant has the types.
LEMMA SandboxInvTypes == SandboxInv => SandboxTypeOK
BY SingleCardinality DEF SandboxInv, SecretsOK, SandboxTypeOK
-----------------------------------------------------------------------------
(* What is proved of the sandbox *)

\* There is one call and at most one fork of its child, and the bytes counted
\* of an output stay next to their limit.
THEOREM SandboxTypeCorrect == SandboxSpec => []SandboxTypeOK
BY SandboxInvTypes, SandboxInvariance, PTL

\* What the host is told is what happened, whichever of the timer and the end
\* of the child comes first and whatever was forked: no success is reported of
\* a child that was given a secret of the call, and the parent's secrets reach a
\* child only on demand of the caller or the operator.  A command runs if the
\* base lists it or, where the base lists none, a tenant does.
THEOREM SandboxIsHonest == SandboxSpec => []SandboxHonest
<1>1. SandboxInv => SandboxHonest
  <2> SUFFICES ASSUME SandboxInv PROVE SandboxHonest
    OBVIOUS
  <2>1. run = "ok" => /\ child = "exited" /\ timer # "rang"
                      /\ "config" \notin secrets
                      /\ (\E s \in Streams : output[s] > MaxOutput) => truncated
    BY DEF SandboxInv, RunOK, SecretsOK
  <2>2. run = "error" =>
          \/ child = "failed"
          \/ timer = "rang" /\ \A k \in kid : ~k.group
          \/ \E i \in invocation : i.secretEnv /\ i.unsafeHostSandbox /\ ~i.enterprise
    BY DEF SandboxInv, RunOK, Permitted
  <2>3. \A i \in invocation : child # "none" =>
          /\ i.base.shellAllowed /\ \A t \in i.tenant : t.shellAllowed
          /\ \/ i.command \in i.base.allowedCommands
             \/ i.base.allowedCommands = {} /\ \E t \in i.tenant : i.command \in t.allowedCommands
          /\ i.enterprise => i.unsafeHostSandbox
          /\ "parent" \in secrets =>
                 i.parentSecrets /\ (i.unsafeHostSandbox \/ (i.inheritParentEnv /\ ~i.docker))
    BY DEF SandboxInv, SecretsOK, Permitted, Listed
  <2> QED
    BY <2>1, <2>2, <2>3 DEF SandboxHonest
<1> QED
  BY <1>1, SandboxInvariance, PTL
-----------------------------------------------------------------------------
(* The store of runs *)

\* The migrations up to v have been applied, all of them and no others.
At(b, v) == b.versions = 1..v /\ b.columns = 2..v

\* Everything that is stored for a run, and nothing else.
Exact(d)    == d.emissions = UNION {Rows(r.id, r.emissionIds) : r \in d.runs}
Complete(d) == \A r \in d.runs : Rows(r.id, r.emissionIds) \subseteq d.emissions

Databases == [torn : BOOLEAN, tables : BOOLEAN, versions : SUBSET (1..SCHEMA_VERSION),
              columns : SUBSET MIGRATIONS, data : [runs : SUBSET [id : Runs, emissionIds : SUBSET Files],
                                                   emissions : SUBSET [run : Runs, file : Files]]]
Phases    == {"new", "tables", "version", "seeded", "open", "closed", "file", "lost"}
Jobs      == [run : Runs, todo : SUBSET Files, done : SUBSET Files]

\* What a process that opens the database knows of it: nobody takes a version
\* back that it has seen.
OpenerOK(p) ==
    \E v \in 0..SCHEMA_VERSION :
        /\ At(db, v)
        /\ process[p] \in {"tables", "version", "seeded", "open"} => db.tables
        /\ process[p] \in {"version", "seeded"} => seen[p] <= v
        /\ process[p] = "seeded" => v >= 1
        /\ process[p] = "open" => v = SCHEMA_VERSION

\* A process that nobody was faster than, or that need not race.
Winner(q) ==
    \/ process[q] \in {"new", "tables", "open", "closed", "file"}
    \/ process[q] = "version" /\ At(db, seen[q])
    \/ process[q] = "seeded" /\ At(db, Max2(seen[q], 1))

\* A backup was made of a database that somebody had open.
BackupOK(b) == b \in Databases /\ At(b, SCHEMA_VERSION) /\ b.tables /\ Exact(b.data)

\* The file adapter of a process: what is flushed and what is cached are
\* complete, and the emissions that a job has written are there.
FileOK(p) ==
    /\ Complete(cache[p]) /\ Complete(disk[p])
    /\ Single(job[p])
    /\ \A j \in job[p] : j \in Jobs /\ Rows(j.run, j.done) \subseteq cache[p].emissions

StoreInv ==
    /\ db \in Databases /\ Exact(db.data)
    /\ Single(backup) /\ \A b \in backup : BackupOK(b)
    /\ process \in [Processes -> Phases]
    /\ seen \in [Processes -> 0..SCHEMA_VERSION]
    /\ DOMAIN job = Processes /\ DOMAIN cache = Processes /\ DOMAIN disk = Processes
    /\ writes \in 0..MaxWrites /\ crashes \in 0..MaxCrashes
    /\ \A p \in Processes : OpenerOK(p)
    /\ \A p \in Processes : FileOK(p)
    /\ \E q \in Processes : Winner(q)

USE StoreAssumption

\* The versions are a prefix of 1..SCHEMA_VERSION: which one is seen from the
\* greatest, and a process races in vain exactly when it has seen a shorter one.
LEMMA Prefixes ==
    ASSUME NEW v \in 0..SCHEMA_VERSION, NEW w \in 0..SCHEMA_VERSION
    PROVE  /\ 1..v = 1..w => v = w
           /\ MaxOf(1..v) = v
           /\ 1 \in 1..v <=> v # 0
           /\ w <= v /\ v >= 1 =>
                 LET pending == {x \in MIGRATIONS : x > Max2(w, 1)}
                 IN  /\ pending \cap (1..v) = {} <=> v = Max2(w, 1)
                     /\ v = Max2(w, 1) => /\ (1..v) \cup pending = 1..SCHEMA_VERSION
                                          /\ (2..v) \cup pending = 2..SCHEMA_VERSION
<1>1. 1..v = 1..w => v = w
  <2>1. v > w => v \in 1..v /\ v \notin 1..w
    BY DEF SCHEMA_VERSION
  <2>2. w > v => w \in 1..w /\ w \notin 1..v
    BY DEF SCHEMA_VERSION
  <2> QED
    BY <2>1, <2>2 DEF SCHEMA_VERSION
<1>2. MaxOf(1..v) = v
  <2>1. CASE v = 0
    BY <2>1 DEF MaxOf
  <2>2. CASE v # 0
    <3>1. v \in 1..v /\ \A x \in 1..v : x <= v
      BY <2>2 DEF SCHEMA_VERSION
    <3>2. \A m \in 1..v : (\A x \in 1..v : x <= m) => m = v
      BY <3>1 DEF SCHEMA_VERSION
    <3> QED
      BY <3>1, <3>2 DEF MaxOf
  <2> QED
    BY <2>1, <2>2
<1>3. 1 \in 1..v <=> v # 0
  BY DEF SCHEMA_VERSION
<1>4. ASSUME w <= v, v >= 1
      PROVE  LET pending == {x \in MIGRATIONS : x > Max2(w, 1)}
             IN  /\ pending \cap (1..v) = {} <=> v = Max2(w, 1)
                 /\ v = Max2(w, 1) => /\ (1..v) \cup pending = 1..SCHEMA_VERSION
                                      /\ (2..v) \cup pending = 2..SCHEMA_VERSION
  <2> DEFINE m       == Max2(w, 1)
             pending == {x \in MIGRATIONS : x > m}
  <2>1. m \in 1..3 /\ m <= v /\ v <= 3
    BY <1>4 DEF Max2, SCHEMA_VERSION
  <2> HIDE DEF m
  <2>2. v # m => v \in pending \cap (1..v)
    BY <2>1 DEF MIGRATIONS, SCHEMA_VERSION
  <2>3. v = m => pending \cap (1..v) = {}
    BY <2>1 DEF MIGRATIONS, SCHEMA_VERSION
  <2>4. v = m => (1..v) \cup pending = 1..SCHEMA_VERSION /\ (2..v) \cup pending = 2..SCHEMA_VERSION
    BY <2>1 DEF MIGRATIONS, SCHEMA_VERSION
  <2> QED
    BY <2>2, <2>3, <2>4 DEF m
<1> QED
  BY <1>1, <1>2, <1>3, <1>4

\* What a row says.
LEMMA RowFields ==
    ASSUME NEW r, NEW E, NEW x \in Rows(r, E)
    PROVE  x.run = r
BY DEF Rows

\* A run that is written again leaves exactly its new emissions.
LEMMA RewrittenExact ==
    ASSUME NEW d, Exact(d), NEW r, NEW E
    PROVE  Exact(Rewritten(d, r, E))
<1> DEFINE n == Named(r, E)
           e == Rewritten(d, r, E)
<1>1. n.id = r /\ n.emissionIds = E
  BY DEF Named
<1>2. e.runs = {x \in d.runs : x.id # r} \cup {n} /\ e.emissions = Without(d.emissions, r) \cup Rows(r, E)
  BY <1>1 DEF Rewritten, Replaced
<1> HIDE DEF n, e
<1>3. ASSUME NEW x \in e.emissions PROVE \E m \in e.runs : x \in Rows(m.id, m.emissionIds)
  <2>1. CASE x \in Rows(r, E)
    BY <1>1, <1>2, <2>1
  <2>2. CASE x \notin Rows(r, E)
    <3>1. x \in d.emissions /\ x.run # r
      BY <1>2, <1>3, <2>2 DEF Without
    <3>2. PICK m \in d.runs : x \in Rows(m.id, m.emissionIds)
      BY <3>1 DEF Exact
    <3>3. m.id # r
      BY <3>1, <3>2, RowFields
    <3> QED
      BY <1>2, <3>2, <3>3
  <2> QED
    BY <2>1, <2>2
<1>4. ASSUME NEW m \in e.runs, NEW x \in Rows(m.id, m.emissionIds) PROVE x \in e.emissions
  <2>1. CASE m = n
    BY <1>1, <1>2, <1>4, <2>1
  <2>2. CASE m # n
    <3>1. m \in d.runs /\ m.id # r
      BY <1>2, <2>2
    <3>2. x \in d.emissions /\ x.run # r
      BY <1>4, <3>1, RowFields DEF Exact
    <3> QED
      BY <1>2, <3>2 DEF Without
  <2> QED
    BY <2>1, <2>2
<1>5. e.emissions = UNION {Rows(m.id, m.emissionIds) : m \in e.runs}
  BY <1>3, <1>4
<1> QED
  BY <1>5 DEF Exact, e

\* Emissions one by one, and a run whose emissions are there, keep a file complete.
LEMMA FileGrows ==
    ASSUME NEW d, Complete(d)
    PROVE  /\ \A rows : Complete(WithRows(d, rows))
           /\ \A r, E : Rows(r, E) \subseteq d.emissions => Complete(WithRun(d, Named(r, E)))
<1>1. ASSUME NEW rows PROVE Complete(WithRows(d, rows))
  BY DEF Complete, WithRows
<1>2. ASSUME NEW r, NEW E, Rows(r, E) \subseteq d.emissions PROVE Complete(WithRun(d, Named(r, E)))
  <2> DEFINE n == Named(r, E)
             e == WithRun(d, n)
  <2>1. n.id = r /\ n.emissionIds = E
    BY DEF Named
  <2>2. e.emissions = d.emissions /\ \A m \in e.runs : m \in d.runs \/ m = n
    BY DEF WithRun, Replaced
  <2> HIDE DEF n, e
  <2>3. \A m \in e.runs : Rows(m.id, m.emissionIds) \subseteq e.emissions
    BY <1>2, <2>1, <2>2 DEF Complete
  <2> QED
    BY <2>3 DEF Complete, e, n
<1> QED
  BY <1>1, <1>2

\* What is rewritten is still of its type.
LEMMA RewrittenType ==
    ASSUME NEW r \in Runs, NEW E \in SUBSET Files,
           NEW d \in [runs : SUBSET [id : Runs, emissionIds : SUBSET Files],
                      emissions : SUBSET [run : Runs, file : Files]]
    PROVE  Rewritten(d, r, E) \in [runs : SUBSET [id : Runs, emissionIds : SUBSET Files],
                                   emissions : SUBSET [run : Runs, file : Files]]
<1>1. Named(r, E) \in [id : Runs, emissionIds : SUBSET Files]
  BY DEF Named
<1>2. Rows(r, E) \subseteq [run : Runs, file : Files]
  BY DEF Rows
<1>3. Replaced(d.runs, Named(r, E)) \subseteq [id : Runs, emissionIds : SUBSET Files]
  BY <1>1 DEF Replaced
<1>4. Without(d.emissions, r) \cup Rows(r, E) \subseteq [run : Runs, file : Files]
  BY <1>2 DEF Without
<1> QED
  BY <1>3, <1>4 DEF Rewritten
-----------------------------------------------------------------------------
(* The steps of the store *)

\* The initial states: a new database, or one of an older release.
LEMMA StoreInitInv == StoreInit => StoreInv
<1> SUFFICES ASSUME StoreInit PROVE StoreInv
  OBVIOUS
<1>1. \E v \in 0..SCHEMA_VERSION : At(db, v) /\ db \in Databases /\ db.data = Nothing
  <2>1. CASE db = Fresh
    <3>1. At(Fresh, 0) /\ Fresh \in Databases /\ Fresh.data = Nothing
      BY DEF Fresh, At, Databases, Nothing
    <3> QED
      BY <2>1, <3>1 DEF SCHEMA_VERSION
  <2>2. ASSUME NEW v \in 1..SCHEMA_VERSION,
               db = [Fresh EXCEPT !.tables = TRUE, !.versions = 1..v, !.columns = 2..v]
        PROVE  At(db, v) /\ db \in Databases /\ db.data = Nothing
    <3>1. 1..v \subseteq 1..SCHEMA_VERSION /\ 2..v \subseteq MIGRATIONS
      BY DEF SCHEMA_VERSION, MIGRATIONS
    <3> QED
      BY <2>2, <3>1 DEF Fresh, At, Databases, Nothing
  <2> QED
    BY <2>1, <2>2 DEF StoreInit, SCHEMA_VERSION
<1>2. Exact(Nothing) /\ Complete(Nothing)
  BY DEF Exact, Complete, Nothing
<1>3. \A p \in Processes : OpenerOK(p)
  BY <1>1 DEF StoreInit, OpenerOK
<1>4. \A p \in Processes : FileOK(p)
  BY <1>2 DEF StoreInit, FileOK, Single, Nobody
<1>5. \E q \in Processes : Winner(q)
  BY DEF StoreInit, Winner
<1>6. process \in [Processes -> Phases] /\ seen \in [Processes -> 0..SCHEMA_VERSION]
  BY DEF StoreInit, Phases, SCHEMA_VERSION
<1>7. db \in Databases /\ Exact(db.data)
  BY <1>1, <1>2
<1>8. /\ backup = {} /\ DOMAIN job = Processes /\ DOMAIN cache = Processes
      /\ DOMAIN disk = Processes /\ writes \in 0..MaxWrites /\ crashes \in 0..MaxCrashes
  <2>1. DOMAIN job = Processes /\ DOMAIN cache = Processes /\ DOMAIN disk = Processes
    BY Zenon DEF StoreInit
  <2>2. backup = {} /\ writes = 0 /\ crashes = 0
    BY Zenon DEF StoreInit
  <2>3. 0 \in 0..MaxWrites /\ 0 \in 0..MaxCrashes
    BY StoreAssumption
  <2> QED
    BY <2>1, <2>2, <2>3
<1>9. Single(backup) /\ \A b \in backup : BackupOK(b)
  BY <1>8 DEF Single
<1> QED
  BY <1>3, <1>4, <1>5, <1>6, <1>7, <1>8, <1>9 DEF StoreInv

\* Steps that change neither the schema nor how far a process is with it.
LEMMA SchemaKept ==
    ASSUME StoreInv, UNCHANGED <<process, seen>>, db'.versions = db.versions,
           db'.columns = db.columns, db'.tables = db.tables
    PROVE  /\ \A p \in Processes : OpenerOK(p)'
           /\ (\E q \in Processes : Winner(q))'
<1>1. \A v : At(db', v) <=> At(db, v)
  BY DEF At
<1>2. ASSUME NEW p \in Processes PROVE OpenerOK(p)'
  BY <1>1 DEF StoreInv, OpenerOK, At
<1>3. \E q \in Processes : Winner(q)'
  BY DEF StoreInv, Winner, At
<1> QED
  BY <1>2, <1>3

\* Steps that leave the file adapters alone.
LEMMA FilesKept ==
    ASSUME StoreInv, UNCHANGED <<job, cache, disk>>
    PROVE  \A p \in Processes : FileOK(p)'
BY DEF StoreInv, FileOK

\* The other processes while p goes on, when the schema stays or grows.
LEMMA OthersOpen ==
    ASSUME StoreInv, NEW p \in Processes, NEW v \in 0..SCHEMA_VERSION, NEW w \in 0..SCHEMA_VERSION,
           At(db, v), At(db', w), v <= w, db.tables => db'.tables,
           \A q \in Processes \ {p} : process'[q] = process[q] /\ seen'[q] = seen[q]
    PROVE  \A q \in Processes \ {p} : OpenerOK(q)'
<1> SUFFICES ASSUME NEW q \in Processes \ {p} PROVE OpenerOK(q)'
  OBVIOUS
<1>1. PICK u \in 0..SCHEMA_VERSION :
        /\ At(db, u)
        /\ process[q] \in {"tables", "version", "seeded", "open"} => db.tables
        /\ process[q] \in {"version", "seeded"} => seen[q] <= u
        /\ process[q] = "seeded" => u >= 1
        /\ process[q] = "open" => u = SCHEMA_VERSION
  BY DEF StoreInv, OpenerOK
<1>2. u = v
  BY <1>1, Prefixes DEF At
<1>3. seen[q] \in 0..SCHEMA_VERSION
  BY DEF StoreInv
<1>4. /\ process'[q] \in {"tables", "version", "seeded", "open"} => db'.tables
      /\ process'[q] \in {"version", "seeded"} => seen'[q] <= w
      /\ process'[q] = "seeded" => w >= 1
      /\ process'[q] = "open" => w = SCHEMA_VERSION
  BY <1>1, <1>2, <1>3 DEF SCHEMA_VERSION
<1> QED
  BY <1>4 DEF OpenerOK, At

\* What OpenerOK says with the one prefix there is.
LEMMA OpenerKnows ==
    ASSUME StoreInv, NEW p \in Processes
    PROVE  \E v \in 0..SCHEMA_VERSION :
              /\ At(db, v)
              /\ process[p] \in {"tables", "version", "seeded", "open"} => db.tables
              /\ process[p] \in {"version", "seeded"} => seen[p] <= v
              /\ process[p] = "seeded" => v >= 1
              /\ process[p] = "open" => v = SCHEMA_VERSION
BY DEF StoreInv, OpenerOK

\* CREATE TABLE, or the fallback to a file.
LEMMA CreateTablesInv ==
    ASSUME StoreInv, NEW p \in Processes, CreateTables(p)
    PROVE  StoreInv'
<1>1. /\ \/ process' = [process EXCEPT ![p] = "tables"] /\ db' = [db EXCEPT !.tables = TRUE]
         \/ process' = [process EXCEPT ![p] = "file"] /\ db' = db
      /\ UNCHANGED <<backup, seen, job, cache, disk, writes, crashes>>
  BY DEF CreateTables, Becomes
<1>2. process \in [Processes -> Phases] /\ db \in Databases
  BY DEF StoreInv
<1>3. /\ process' \in [Processes -> Phases] /\ process'[p] \in {"tables", "file"}
      /\ \A q \in Processes \ {p} : process'[q] = process[q]
      /\ process'[p] = "tables" => db' = [db EXCEPT !.tables = TRUE]
  BY <1>1, <1>2 DEF Phases
<1>4. /\ db' \in Databases /\ db'.versions = db.versions /\ db'.columns = db.columns
      /\ db'.data = db.data /\ (db.tables => db'.tables) /\ (process'[p] = "tables" => db'.tables)
  BY <1>1, <1>2, <1>3 DEF Databases
<1>5. PICK v \in 0..SCHEMA_VERSION : At(db, v)
  BY OpenerKnows
<1>6. At(db', v)
  BY <1>4, <1>5 DEF At
<1>7. \A q \in Processes \ {p} : OpenerOK(q)'
  BY <1>1, <1>3, <1>4, <1>5, <1>6, OthersOpen DEF SCHEMA_VERSION
<1>8. OpenerOK(p)'
  BY <1>3, <1>4, <1>6 DEF OpenerOK, At
<1>9. Winner(p)'
  BY <1>3 DEF Winner
<1>10. \A q \in Processes : FileOK(q)'
  BY <1>1, FilesKept
<1> QED
  BY <1>1, <1>3, <1>4, <1>7, <1>8, <1>9, <1>10 DEF StoreInv, Exact, Single, BackupOK

\* The version is read.
LEMMA ReadVersionInv ==
    ASSUME StoreInv, NEW p \in Processes, ReadVersion(p)
    PROVE  StoreInv'
<1>1. PICK v \in 0..SCHEMA_VERSION :
        /\ At(db, v)
        /\ process[p] \in {"tables", "version", "seeded", "open"} => db.tables
  BY OpenerKnows
<1>2. /\ process[p] = "tables" /\ process' = [process EXCEPT ![p] = "version"]
      /\ seen' = [seen EXCEPT ![p] = v]
      /\ UNCHANGED <<db, backup, job, cache, disk, writes, crashes>>
  BY <1>1, Prefixes DEF ReadVersion, Becomes, At
<1>3. process \in [Processes -> Phases] /\ seen \in [Processes -> 0..SCHEMA_VERSION]
  BY DEF StoreInv
<1>4. /\ process' \in [Processes -> Phases] /\ process'[p] = "version"
      /\ seen' \in [Processes -> 0..SCHEMA_VERSION] /\ seen'[p] = v
      /\ \A q \in Processes \ {p} : process'[q] = process[q] /\ seen'[q] = seen[q]
  BY <1>2, <1>3 DEF Phases
<1>5. At(db', v)
  BY <1>1, <1>2 DEF At
<1>6. \A q \in Processes \ {p} : OpenerOK(q)'
  BY <1>1, <1>2, <1>4, <1>5, OthersOpen DEF SCHEMA_VERSION
<1>7. OpenerOK(p)'
  <2>1. v <= v
    BY DEF SCHEMA_VERSION
  <2> QED
    BY <1>1, <1>2, <1>4, <1>5, <2>1 DEF OpenerOK, At
<1>8. Winner(p)'
  BY <1>4, <1>5 DEF Winner, At
<1>9. \A q \in Processes : FileOK(q)'
  BY <1>2, FilesKept
<1> QED
  BY <1>2, <1>4, <1>6, <1>7, <1>8, <1>9 DEF StoreInv, Exact, Single, BackupOK

\* The seed row: a process that finds the row of another one has lost to it.
LEMMA SeedVersionInv ==
    ASSUME StoreInv, NEW p \in Processes, SeedVersion(p)
    PROVE  StoreInv'
<1>1. PICK v \in 0..SCHEMA_VERSION :
        /\ At(db, v)
        /\ process[p] \in {"tables", "version", "seeded", "open"} => db.tables
        /\ process[p] \in {"version", "seeded"} => seen[p] <= v
  BY OpenerKnows
<1>2. /\ process[p] = "version" /\ UNCHANGED <<backup, seen, job, cache, disk, writes, crashes>>
      /\ seen[p] \in 0..SCHEMA_VERSION /\ process \in [Processes -> Phases] /\ db \in Databases
  BY DEF SeedVersion, StoreInv
<1>3. \A q \in Processes : FileOK(q)'
  BY <1>2, FilesKept
<1>4. CASE seen[p] # 0
  <2>1. process' = [process EXCEPT ![p] = "seeded"] /\ UNCHANGED db
    BY <1>4 DEF SeedVersion, Becomes
  <2>2. /\ process' \in [Processes -> Phases] /\ process'[p] = "seeded"
        /\ \A q \in Processes \ {p} : process'[q] = process[q]
    BY <1>2, <2>1 DEF Phases
  <2>3. v <= v /\ v >= 1
    BY <1>1, <1>2, <1>4 DEF SCHEMA_VERSION
  <2>4. At(db', v)
    BY <1>1, <2>1 DEF At
  <2>5. \A q \in Processes \ {p} : OpenerOK(q)'
    BY <1>1, <1>2, <2>1, <2>2, <2>3, <2>4, OthersOpen
  <2>6. OpenerOK(p)'
    BY <1>1, <1>2, <2>1, <2>2, <2>3, <2>4 DEF OpenerOK, At
  <2>7. PICK q \in Processes : Winner(q)
    BY DEF StoreInv
  <2>8. Max2(seen[p], 1) = seen[p]
    BY <1>2, <1>4 DEF Max2, SCHEMA_VERSION
  <2>9. Winner(q)'
    <3>1. CASE q = p
      BY <1>2, <2>1, <2>2, <2>7, <2>8, <3>1 DEF Winner, At, Max2
    <3>2. CASE q # p
      BY <1>2, <2>1, <2>2, <2>7, <3>2 DEF Winner, At, Max2
    <3> QED
      BY <3>1, <3>2
  <2> QED
    BY <1>2, <1>3, <2>1, <2>2, <2>5, <2>6, <2>9 DEF StoreInv, Exact, Single, BackupOK
<1>5. CASE seen[p] = 0 /\ v # 0
  <2>1. 1 \in db.versions
    BY <1>1, <1>5, Prefixes DEF At
  <2>2. process' = [process EXCEPT ![p] = "lost"] /\ UNCHANGED db
    BY <1>5, <2>1 DEF SeedVersion, Becomes
  <2>3. /\ process' \in [Processes -> Phases] /\ process'[p] = "lost"
        /\ \A q \in Processes \ {p} : process'[q] = process[q]
    BY <1>2, <2>2 DEF Phases
  <2>4. At(db', v) /\ v <= v
    BY <1>1, <2>2 DEF At, SCHEMA_VERSION
  <2>5. \A q \in Processes \ {p} : OpenerOK(q)'
    BY <1>1, <1>2, <2>2, <2>3, <2>4, OthersOpen
  <2>6. OpenerOK(p)'
    BY <2>3, <2>4 DEF OpenerOK, At
  <2>7. PICK q \in Processes : Winner(q)
    BY DEF StoreInv
  <2>8. q # p
    <3>1. ~At(db, 0)
      BY <2>1, Prefixes DEF At, SCHEMA_VERSION
    <3> QED
      BY <1>2, <1>5, <2>7, <3>1 DEF Winner
  <2>9. Winner(q)'
    BY <1>2, <2>2, <2>3, <2>7, <2>8 DEF Winner, At, Max2
  <2> QED
    BY <1>2, <1>3, <2>2, <2>3, <2>5, <2>6, <2>9 DEF StoreInv, Exact, Single, BackupOK
<1>6. CASE seen[p] = 0 /\ v = 0
  <2>1. 1 \notin db.versions /\ db.versions = 1..0 /\ db.columns = 2..0
    BY <1>1, <1>6, Prefixes DEF At
  <2>2. /\ process' = [process EXCEPT ![p] = "seeded"]
        /\ db' = [db EXCEPT !.versions = db.versions \cup {1}]
    BY <1>6, <2>1 DEF SeedVersion, Becomes
  <2>3. /\ process' \in [Processes -> Phases] /\ process'[p] = "seeded"
        /\ \A q \in Processes \ {p} : process'[q] = process[q]
    BY <1>2, <2>2 DEF Phases
  <2>4. /\ db' \in Databases /\ db'.versions = db.versions \cup {1} /\ db'.columns = db.columns
        /\ db'.data = db.data /\ db'.tables = db.tables
    BY <1>2, <2>2 DEF Databases, SCHEMA_VERSION
  <2>5. At(db', 1) /\ 1 \in 0..SCHEMA_VERSION
    <3>1. (1..0) \cup {1} = 1..1 /\ 2..0 = 2..1
      OBVIOUS
    <3> QED
      BY <2>1, <2>4, <3>1 DEF At, SCHEMA_VERSION
  <2>6. \A q \in Processes \ {p} : OpenerOK(q)'
    <3>1. v <= 1
      BY <1>6
    <3> QED
      BY <1>1, <1>2, <2>3, <2>4, <2>5, <3>1, OthersOpen
  <2>7. OpenerOK(p)'
    BY <1>1, <1>2, <1>6, <2>3, <2>4, <2>5 DEF OpenerOK, At
  <2>8. Winner(p)'
    <3>1. Max2(seen'[p], 1) = 1
      BY <1>2, <1>6 DEF Max2
    <3> QED
      BY <2>3, <2>5, <3>1 DEF Winner, At, Max2
  <2> QED
    BY <1>2, <1>3, <2>3, <2>4, <2>6, <2>7, <2>8 DEF StoreInv, Exact, Single, BackupOK
<1> QED
  BY <1>4, <1>5, <1>6

\* The migrations: a process that finds one of them applied has lost.
LEMMA MigrationsInv ==
    ASSUME StoreInv, NEW p \in Processes, _runMigrations(p)
    PROVE  StoreInv'
<1> DEFINE pending == {x \in MIGRATIONS : x > Max2(seen[p], 1)}
<1>1. /\ process[p] = "seeded" /\ UNCHANGED <<backup, seen, job, cache, disk, writes, crashes>>
      /\ seen[p] \in 0..SCHEMA_VERSION /\ process \in [Processes -> Phases] /\ db \in Databases
      /\ pending \subseteq MIGRATIONS
  BY DEF _runMigrations, StoreInv
<1>2. PICK v \in 0..SCHEMA_VERSION :
        /\ At(db, v) /\ db.tables /\ seen[p] <= v /\ v >= 1
  BY <1>1, OpenerKnows
<1>3. /\ pending \cap db.versions = {} <=> v = Max2(seen[p], 1)
      /\ v = Max2(seen[p], 1) => /\ db.versions \cup pending = 1..SCHEMA_VERSION
                                 /\ db.columns \cup pending = 2..SCHEMA_VERSION
  BY <1>1, <1>2, Prefixes DEF At
<1>4. \A q \in Processes : FileOK(q)'
  BY <1>1, FilesKept
<1>5. CASE pending \cap db.versions # {}
  <2>1. process' = [process EXCEPT ![p] = "lost"] /\ UNCHANGED db
    BY <1>5 DEF _runMigrations, Becomes
  <2>2. /\ process' \in [Processes -> Phases] /\ process'[p] = "lost"
        /\ \A q \in Processes \ {p} : process'[q] = process[q]
    BY <1>1, <2>1 DEF Phases
  <2>3. At(db', v) /\ v <= v
    BY <1>2, <2>1 DEF At, SCHEMA_VERSION
  <2>4. \A q \in Processes \ {p} : OpenerOK(q)'
    BY <1>1, <1>2, <2>1, <2>2, <2>3, OthersOpen
  <2>5. OpenerOK(p)'
    BY <2>2, <2>3 DEF OpenerOK, At
  <2>6. PICK q \in Processes : Winner(q)
    BY DEF StoreInv
  <2>7. q # p
    <3>1. Max2(seen[p], 1) \in 0..SCHEMA_VERSION
      BY <1>1 DEF Max2, SCHEMA_VERSION
    <3>2. ~At(db, Max2(seen[p], 1))
      BY <1>2, <1>3, <1>5, <3>1, Prefixes DEF At
    <3> QED
      BY <1>1, <2>6, <3>2 DEF Winner
  <2>8. Winner(q)'
    BY <1>1, <2>1, <2>2, <2>6, <2>7 DEF Winner, At, Max2
  <2> QED
    BY <1>1, <1>4, <2>1, <2>2, <2>4, <2>5, <2>8 DEF StoreInv, Exact, Single, BackupOK
<1>6. CASE pending \cap db.versions = {}
  <2>1. /\ process' = [process EXCEPT ![p] = "open"]
        /\ db' = [db EXCEPT !.versions = db.versions \cup pending,
                            !.columns = db.columns \cup pending]
    BY <1>6 DEF _runMigrations, Becomes
  <2>2. /\ process' \in [Processes -> Phases] /\ process'[p] = "open"
        /\ \A q \in Processes \ {p} : process'[q] = process[q]
    BY <1>1, <2>1 DEF Phases
  <2>3. MIGRATIONS \subseteq 1..SCHEMA_VERSION
    BY DEF MIGRATIONS, SCHEMA_VERSION
  <2> HIDE DEF pending
  <2>4. /\ db' \in Databases /\ db'.versions = db.versions \cup pending
        /\ db'.columns = db.columns \cup pending /\ db'.data = db.data /\ db'.tables = db.tables
    BY <1>1, <2>1, <2>3 DEF Databases
  <2>5. At(db', SCHEMA_VERSION) /\ SCHEMA_VERSION \in 0..SCHEMA_VERSION /\ v <= SCHEMA_VERSION
    BY <1>3, <1>6, <2>4 DEF At, SCHEMA_VERSION
  <2>6. \A q \in Processes \ {p} : OpenerOK(q)'
    BY <1>1, <1>2, <2>2, <2>4, <2>5, OthersOpen
  <2>7. OpenerOK(p)'
    BY <1>2, <2>2, <2>4, <2>5 DEF OpenerOK, At
  <2>8. Winner(p)'
    BY <2>2 DEF Winner
  <2> QED
    BY <1>1, <1>4, <2>2, <2>4, <2>6, <2>7, <2>8 DEF StoreInv, Exact, Single, BackupOK
<1> QED
  BY <1>5, <1>6

\* A run is written to the database, or the transaction is rolled back.
LEMMA WriteRunInv ==
    ASSUME StoreInv, NEW p \in Processes, NEW r \in Runs, NEW E \in SUBSET Files,
           writeRunAndEmissions(p, r, E)
    PROVE  StoreInv'
<1>1. /\ UNCHANGED <<backup, process, seen, job, cache, disk, crashes>>
      /\ writes < MaxWrites /\ writes' = writes + 1
      /\ db' = db \/ db' = [db EXCEPT !.data = Rewritten(db.data, r, E)]
  BY DEF writeRunAndEmissions
<1>2. db \in Databases /\ Exact(db.data) /\ writes \in 0..MaxWrites
  BY DEF StoreInv
<1>3. writes' \in 0..MaxWrites
  BY <1>1, <1>2
<1>4. Rewritten(db.data, r, E) \in [runs : SUBSET [id : Runs, emissionIds : SUBSET Files],
                                    emissions : SUBSET [run : Runs, file : Files]]
  BY <1>2, RewrittenType DEF Databases
<1>5. Exact(Rewritten(db.data, r, E))
  BY <1>2, RewrittenExact
<1> DEFINE e == Rewritten(db.data, r, E)
<1> HIDE DEF e
<1>6. db' = db \/ db' = [db EXCEPT !.data = e]
  BY <1>1 DEF e
<1>7. /\ db' \in Databases /\ db'.versions = db.versions /\ db'.columns = db.columns
      /\ db'.tables = db.tables /\ db'.data \in {db.data, e}
  BY <1>2, <1>4, <1>6 DEF Databases, e
<1>8. Exact(db'.data)
  BY <1>2, <1>5, <1>7 DEF e
<1>9. (\A q \in Processes : OpenerOK(q)') /\ (\E q \in Processes : Winner(q))'
  BY <1>1, <1>7, SchemaKept
<1>10. \A q \in Processes : FileOK(q)'
  BY <1>1, FilesKept
<1> QED
  BY <1>1, <1>3, <1>7, <1>8, <1>9, <1>10 DEF StoreInv, Exact, Single, BackupOK

\* Steps of the file adapter of p alone.
LEMMA FileStep ==
    ASSUME StoreInv, NEW p \in Processes, UNCHANGED <<db, backup, process, seen, crashes>>,
           writes' \in 0..MaxWrites, DOMAIN job' = Processes, DOMAIN cache' = Processes,
           DOMAIN disk' = Processes, FileOK(p)',
           \A q \in Processes \ {p} : job'[q] = job[q] /\ cache'[q] = cache[q] /\ disk'[q] = disk[q]
    PROVE  StoreInv'
<1>1. (\A q \in Processes : OpenerOK(q)') /\ (\E q \in Processes : Winner(q))'
  BY SchemaKept
<1>2. \A q \in Processes : FileOK(q)'
  BY DEF StoreInv, FileOK
<1> QED
  BY <1>1, <1>2 DEF StoreInv, Exact, Single, BackupOK

\* A job of the file adapter begins with nothing written.
LEMMA FileWriteBeginsInv ==
    ASSUME StoreInv, NEW p \in Processes, NEW r \in Runs, NEW E \in SUBSET Files,
           FileWriteBegins(p, r, E)
    PROVE  StoreInv'
<1> DEFINE j == [run |-> r, todo |-> E, done |-> {}]
<1>1. /\ UNCHANGED <<db, backup, process, seen, cache, disk, crashes>>
      /\ writes < MaxWrites /\ writes' = writes + 1
      /\ job' = [job EXCEPT ![p] = {j}]
  BY DEF FileWriteBegins
<1>2. j \in Jobs /\ Rows(j.run, j.done) = {}
  BY DEF Jobs, Rows
<1> HIDE DEF j
<1>3. FileOK(p) /\ writes \in 0..MaxWrites /\ DOMAIN job = Processes
      /\ DOMAIN cache = Processes /\ DOMAIN disk = Processes
  BY DEF StoreInv
<1>4. writes' \in 0..MaxWrites
  BY <1>1, <1>3
<1>5. /\ DOMAIN job' = Processes /\ job'[p] = {j}
      /\ \A q \in Processes \ {p} : job'[q] = job[q]
  BY <1>1, <1>3
<1>6. FileOK(p)'
  BY <1>1, <1>2, <1>3, <1>5 DEF FileOK, Single
<1> QED
  BY <1>1, <1>3, <1>4, <1>5, <1>6, FileStep

\* An emission is in the file before the job counts it as written.
LEMMA WriteEmissionInv ==
    ASSUME StoreInv, NEW p \in Processes, writeEmissionRecords(p)
    PROVE  StoreInv'
<1>1. PICK j \in job[p] : \E e \in j.todo :
        /\ \/ /\ cache' = [cache EXCEPT ![p] = WithRows(cache[p], Rows(j.run, {e}))]
              /\ job' = [job EXCEPT ![p] = {[j EXCEPT !.todo = j.todo \ {e}, !.done = j.done \cup {e}]}]
           \/ job' = [job EXCEPT ![p] = {}] /\ UNCHANGED cache
        /\ UNCHANGED <<db, backup, process, seen, disk, writes, crashes>>
  BY DEF writeEmissionRecords, Nobody
<1>2. PICK e \in j.todo :
        /\ \/ /\ cache' = [cache EXCEPT ![p] = WithRows(cache[p], Rows(j.run, {e}))]
              /\ job' = [job EXCEPT ![p] = {[j EXCEPT !.todo = j.todo \ {e}, !.done = j.done \cup {e}]}]
           \/ job' = [job EXCEPT ![p] = {}] /\ UNCHANGED cache
        /\ UNCHANGED <<db, backup, process, seen, disk, writes, crashes>>
  BY <1>1
<1>3. /\ FileOK(p) /\ writes \in 0..MaxWrites /\ DOMAIN job = Processes
      /\ DOMAIN cache = Processes /\ DOMAIN disk = Processes
  BY DEF StoreInv
<1>4. CASE job' = [job EXCEPT ![p] = {}] /\ UNCHANGED cache
  <2>1. FileOK(p)'
    BY <1>2, <1>3, <1>4 DEF FileOK, Single
  <2>2. DOMAIN job' = Processes /\ \A q \in Processes \ {p} : job'[q] = job[q]
    BY <1>3, <1>4
  <2> QED
    BY <1>2, <1>3, <1>4, <2>1, <2>2, FileStep
<1>5. CASE /\ cache' = [cache EXCEPT ![p] = WithRows(cache[p], Rows(j.run, {e}))]
           /\ job' = [job EXCEPT ![p] = {[j EXCEPT !.todo = j.todo \ {e}, !.done = j.done \cup {e}]}]
  <2> DEFINE k == [j EXCEPT !.todo = j.todo \ {e}, !.done = j.done \cup {e}]
             d == WithRows(cache[p], Rows(j.run, {e}))
  <2>1. j \in Jobs /\ Rows(j.run, j.done) \subseteq cache[p].emissions /\ Complete(cache[p])
    BY <1>3 DEF FileOK
  <2>2. k \in Jobs /\ k.run = j.run /\ k.done = j.done \cup {e}
    BY <2>1 DEF Jobs
  <2>3. d.emissions = cache[p].emissions \cup Rows(j.run, {e})
    BY DEF WithRows
  <2>4. Complete(d)
    BY <2>1, FileGrows
  <2>5. cache' = [cache EXCEPT ![p] = d] /\ job' = [job EXCEPT ![p] = {k}]
    BY <1>5
  <2> HIDE DEF k, d
  <2>6. Rows(k.run, k.done) \subseteq d.emissions
    BY <2>1, <2>2, <2>3 DEF Rows
  <2>7. /\ DOMAIN job' = Processes /\ job'[p] = {k} /\ DOMAIN cache' = Processes /\ cache'[p] = d
        /\ \A q \in Processes \ {p} : job'[q] = job[q] /\ cache'[q] = cache[q]
    BY <1>3, <2>5
  <2>8. FileOK(p)'
    BY <1>2, <1>3, <2>2, <2>4, <2>6, <2>7 DEF FileOK, Single
  <2> QED
    BY <1>2, <1>3, <2>7, <2>8, FileStep
<1> QED
  BY <1>2, <1>4, <1>5

\* The run comes when all its emissions are there.
LEMMA WriteRunRecordInv ==
    ASSUME StoreInv, NEW p \in Processes, writeRunRecord(p)
    PROVE  StoreInv'
<1>1. PICK j \in job[p] :
        /\ cache' = [cache EXCEPT ![p] = WithRun(cache[p], Named(j.run, j.done))]
        /\ job' = [job EXCEPT ![p] = {}]
        /\ UNCHANGED <<db, backup, process, seen, disk, writes, crashes>>
  BY DEF writeRunRecord, Nobody
<1>2. /\ FileOK(p) /\ writes \in 0..MaxWrites /\ DOMAIN job = Processes
      /\ DOMAIN cache = Processes /\ DOMAIN disk = Processes
  BY DEF StoreInv
<1>3. Complete(WithRun(cache[p], Named(j.run, j.done)))
  BY <1>2, FileGrows DEF FileOK
<1>4. /\ DOMAIN job' = Processes /\ job'[p] = {} /\ DOMAIN cache' = Processes
      /\ cache'[p] = WithRun(cache[p], Named(j.run, j.done))
      /\ \A q \in Processes \ {p} : job'[q] = job[q] /\ cache'[q] = cache[q]
  BY <1>1, <1>2
<1>5. FileOK(p)'
  BY <1>1, <1>2, <1>3, <1>4 DEF FileOK, Single
<1> QED
  BY <1>1, <1>2, <1>4, <1>5, FileStep

\* What is flushed was complete in the cache.
LEMMA PersistInv ==
    ASSUME StoreInv, NEW p \in Processes, persist(p)
    PROVE  StoreInv'
<1>1. /\ disk' = [disk EXCEPT ![p] = cache[p]]
      /\ UNCHANGED <<db, backup, process, seen, job, cache, writes, crashes>>
  BY DEF persist
<1>2. /\ FileOK(p) /\ writes \in 0..MaxWrites /\ DOMAIN job = Processes
      /\ DOMAIN cache = Processes /\ DOMAIN disk = Processes
  BY DEF StoreInv
<1>3. /\ DOMAIN disk' = Processes /\ disk'[p] = cache[p]
      /\ \A q \in Processes \ {p} : disk'[q] = disk[q]
  BY <1>1, <1>2
<1>4. FileOK(p)'
  BY <1>1, <1>2, <1>3 DEF FileOK
<1> QED
  BY <1>1, <1>2, <1>3, <1>4, FileStep

\* A backup is a copy of an open database, whole or cut off.
LEMMA BackUpInv ==
    ASSUME StoreInv, NEW p \in Processes, BackUp(p)
    PROVE  StoreInv'
<1>1. /\ process[p] = "open" /\ UNCHANGED <<db, process, seen, job, cache, disk, writes, crashes>>
      /\ backup' = {db} \/ backup' = {[db EXCEPT !.torn = TRUE]}
  BY DEF BackUp
<1>2. db \in Databases /\ Exact(db.data)
  BY DEF StoreInv
<1>3. At(db, SCHEMA_VERSION) /\ db.tables
  BY <1>1, OpenerKnows
<1> DEFINE b == [db EXCEPT !.torn = TRUE]
<1>4. /\ b \in Databases /\ b.versions = db.versions /\ b.columns = db.columns
      /\ b.tables = db.tables /\ b.data = db.data
  BY <1>2 DEF Databases
<1>5. backup' = {db} \/ backup' = {b}
  BY <1>1
<1> HIDE DEF b
<1>6. BackupOK(db) /\ BackupOK(b)
  BY <1>2, <1>3, <1>4 DEF BackupOK, At
<1>7. Single(backup') /\ \A c \in backup' : BackupOK(c)
  BY <1>5, <1>6 DEF Single
<1>8. (\A q \in Processes : OpenerOK(q)') /\ (\E q \in Processes : Winner(q))'
  BY <1>1, SchemaKept
<1>9. \A q \in Processes : FileOK(q)'
  BY <1>1, FilesKept
<1> QED
  BY <1>1, <1>7, <1>8, <1>9 DEF StoreInv, Exact, Single, BackupOK

\* A restore: the database is a backup, itself, or cut off; nobody else has
\* it open, and all of these have the whole schema.
LEMMA RestoreInv ==
    ASSUME StoreInv, NEW p \in Processes, restore(p)
    PROVE  StoreInv'
<1>1. /\ process[p] = "open"
      /\ \A q \in Processes \ {p} : process[q] \in {"new", "file", "lost", "closed"}
      /\ UNCHANGED <<backup, seen, job, cache, disk, writes, crashes>>
  BY DEF restore
<1>2. PICK ph \in {"open", "closed"} : process' = [process EXCEPT ![p] = ph]
  BY DEF restore, Becomes
<1>3. db' \in backup \/ db' = db \/ db' = [db EXCEPT !.torn = TRUE]
  BY DEF restore
<1>4. db \in Databases /\ Exact(db.data) /\ process \in [Processes -> Phases]
  BY DEF StoreInv
<1>5. At(db, SCHEMA_VERSION) /\ db.tables
  BY <1>1, OpenerKnows
<1>6. BackupOK(db')
  <2>1. CASE db' \in backup
    BY <2>1 DEF StoreInv
  <2>2. CASE db' = db
    BY <1>4, <1>5, <2>2 DEF BackupOK, At
  <2>3. CASE db' = [db EXCEPT !.torn = TRUE]
    <3>1. /\ db' \in Databases /\ db'.versions = db.versions /\ db'.columns = db.columns
          /\ db'.tables = db.tables /\ db'.data = db.data
      BY <1>4, <2>3 DEF Databases
    <3> QED
      BY <1>4, <1>5, <3>1 DEF BackupOK, At
  <2> QED
    BY <1>3, <2>1, <2>2, <2>3
<1>7. /\ process' \in [Processes -> Phases] /\ process'[p] \in {"open", "closed"}
      /\ \A q \in Processes \ {p} : process'[q] = process[q]
  BY <1>2, <1>4 DEF Phases
<1>8. db' \in Databases /\ At(db', SCHEMA_VERSION) /\ db'.tables /\ Exact(db'.data)
  BY <1>6 DEF BackupOK
<1>9. \A q \in Processes : OpenerOK(q)'
  <2>1. SCHEMA_VERSION \in 0..SCHEMA_VERSION
    BY DEF SCHEMA_VERSION
  <2>2. \A q \in Processes : process'[q] \in {"new", "file", "lost", "open", "closed"}
    BY <1>1, <1>7
  <2> QED
    BY <1>8, <2>1, <2>2 DEF OpenerOK, At
<1>10. Winner(p)'
  BY <1>7 DEF Winner
<1>11. \A q \in Processes : FileOK(q)'
  BY <1>1, FilesKept
<1> QED
  BY <1>1, <1>7, <1>8, <1>9, <1>10, <1>11 DEF StoreInv, Exact, Single, BackupOK

\* A crash: the cache of a new process is what was flushed.
LEMMA CrashInv ==
    ASSUME StoreInv, NEW p \in Processes, Crash(p)
    PROVE  StoreInv'
<1>1. /\ crashes < MaxCrashes /\ crashes' = crashes + 1
      /\ process' = [process EXCEPT ![p] = "new"]
      /\ job' = [job EXCEPT ![p] = {}]
      /\ cache' = [cache EXCEPT ![p] = disk[p]]
      /\ UNCHANGED <<db, backup, seen, disk, writes>>
  BY DEF Crash, Becomes, Nobody
<1>2. /\ crashes \in 0..MaxCrashes /\ process \in [Processes -> Phases]
      /\ DOMAIN job = Processes /\ DOMAIN cache = Processes /\ DOMAIN disk = Processes
  BY DEF StoreInv
<1>3. crashes' \in 0..MaxCrashes
  BY <1>1, <1>2
<1>4. /\ process' \in [Processes -> Phases] /\ process'[p] = "new"
      /\ \A q \in Processes \ {p} : process'[q] = process[q]
  BY <1>1, <1>2 DEF Phases
<1>5. /\ DOMAIN job' = Processes /\ job'[p] = {} /\ DOMAIN cache' = Processes /\ cache'[p] = disk[p]
      /\ \A q \in Processes \ {p} : job'[q] = job[q] /\ cache'[q] = cache[q]
  BY <1>1, <1>2
<1>6. PICK v \in 0..SCHEMA_VERSION : At(db, v)
  BY OpenerKnows
<1>7. At(db', v) /\ v <= v
  BY <1>1, <1>6 DEF At, SCHEMA_VERSION
<1>8. \A q \in Processes \ {p} : OpenerOK(q)'
  BY <1>1, <1>4, <1>6, <1>7, OthersOpen
<1>9. OpenerOK(p)'
  BY <1>4, <1>7 DEF OpenerOK, At
<1>10. Winner(p)'
  BY <1>4 DEF Winner
<1>11. ASSUME NEW q \in Processes PROVE FileOK(q)'
  <2>1. CASE q = p
    BY <1>1, <1>5, <2>1 DEF StoreInv, FileOK, Single
  <2>2. CASE q # p
    BY <1>1, <1>5, <2>2 DEF StoreInv, FileOK
  <2> QED
    BY <2>1, <2>2
<1> QED
  BY <1>1, <1>3, <1>4, <1>5, <1>8, <1>9, <1>10, <1>11 DEF StoreInv, Exact, Single, BackupOK

\* Every step of a process with its store.
LEMMA StoreNextInv == StoreInv /\ [StoreNext]_storeVars => StoreInv'
<1>1. ASSUME StoreInv, StoreNext PROVE StoreInv'
  BY <1>1, CreateTablesInv, ReadVersionInv, SeedVersionInv, MigrationsInv, WriteRunInv,
     FileWriteBeginsInv, WriteEmissionInv, WriteRunRecordInv, PersistInv, BackUpInv, RestoreInv,
     CrashInv DEF StoreNext
<1>2. ASSUME StoreInv, UNCHANGED storeVars PROVE StoreInv'
  <2>1. UNCHANGED <<db, backup, process, seen, job, cache, disk, writes, crashes>>
    BY <1>2 DEF storeVars
  <2>2. (\A q \in Processes : OpenerOK(q)') /\ (\E q \in Processes : Winner(q))'
    BY <1>2, <2>1, SchemaKept
  <2>3. \A q \in Processes : FileOK(q)'
    BY <1>2, <2>1, FilesKept
  <2> QED
    BY <1>2, <2>1, <2>2, <2>3 DEF StoreInv, Exact, Single, BackupOK
<1> QED
  BY <1>1, <1>2

\* The invariant holds throughout.
LEMMA StoreInvariance == StoreSpec => []StoreInv
BY StoreInitInv, StoreNextInv, PTL DEF StoreSpec

\* The invariant has the types.
LEMMA StoreInvTypes == ASSUME StoreInv PROVE StoreTypeOK
<1>1. db.versions \subseteq 1..SCHEMA_VERSION /\ db.columns \subseteq MIGRATIONS
  BY DEF StoreInv, Databases
<1>2. Cardinality(backup) <= 1
  BY SingleCardinality DEF StoreInv
<1>3. \A p \in Processes : Cardinality(job[p]) <= 1 /\ seen[p] \in 0..SCHEMA_VERSION
  BY SingleCardinality DEF StoreInv, FileOK
<1> QED
  BY <1>1, <1>2, <1>3 DEF StoreInv, StoreTypeOK, Phases

\* Type correctness of the store: the schema never has a version or a column
\* that no migration adds, at most one backup and one job per process.
THEOREM StoreTypeCorrect == StoreSpec => []StoreTypeOK
<1>1. StoreInv => StoreTypeOK
  BY StoreInvTypes
<1> QED
  BY <1>1, StoreInvariance, PTL

\* Whatever processes open, write, back up, restore and crash, and in whatever
\* order: an open database has the whole schema, runs and emissions agree in
\* it, no file has a run without its emissions, and the processes that open a
\* database together do not all lose.
THEOREM StoreIsWhole == StoreSpec => []StoreWhole
<1>1. StoreInv => StoreWhole
  <2> SUFFICES ASSUME StoreInv PROVE StoreWhole
    OBVIOUS
  <2>1. \E p \in Processes : process[p] # "lost"
    BY DEF StoreInv, Winner
  <2>2. ASSUME NEW p \in Processes, process[p] = "open"
        PROVE  db.tables /\ db.versions = 1..SCHEMA_VERSION /\ db.columns = MIGRATIONS
    BY <2>2, OpenerKnows DEF At, MIGRATIONS
  <2>3. db.data.emissions = UNION {Rows(r.id, r.emissionIds) : r \in db.data.runs}
    BY DEF StoreInv, Exact
  <2>4. \A p \in Processes : \A d \in {cache[p], disk[p]} :
          \A r \in d.runs : Rows(r.id, r.emissionIds) \subseteq d.emissions
    BY DEF StoreInv, FileOK, Complete
  <2> QED
    BY <2>1, <2>2, <2>3, <2>4 DEF StoreWhole
<1> QED
  BY <1>1, StoreInvariance, PTL
-----------------------------------------------------------------------------
(* Plans, files, store and sandbox together *)

\* Plans, files, the store of runs and the sandbox keep their types in every
\* interleaving of their steps.
THEOREM TasksTypeCorrect == TasksSpec => []TasksTypeOK
<1>1. TasksInit => PlanInv /\ ArtifactInv /\ StoreInv /\ SandboxInv
  BY PlanInitInv, ArtifactInitInv, StoreInitInv, SandboxInitInv DEF TasksInit
<1>2. /\ PlanInv /\ ArtifactInv /\ StoreInv /\ SandboxInv
      /\ [TasksNext]_tasksVars
      => (PlanInv /\ ArtifactInv /\ StoreInv /\ SandboxInv)'
  <2> SUFFICES ASSUME PlanInv, ArtifactInv, StoreInv, SandboxInv, [TasksNext]_tasksVars
               PROVE  (PlanInv /\ ArtifactInv /\ StoreInv /\ SandboxInv)'
    OBVIOUS
  <2>1. /\ [PlanNext]_planVars /\ [ArtifactNext]_artifactVars
        /\ [StoreNext]_storeVars /\ [SandboxNext]_sandboxVars
    BY DEF TasksNext, tasksVars
  <2> QED
    BY <2>1, PlanNextInv, ArtifactNextInv, StoreNextInv, SandboxNextInv
<1>3. PlanInv /\ ArtifactInv /\ StoreInv /\ SandboxInv => TasksTypeOK
  BY PlanInvImplies, ArtifactInvImplies, StoreInvTypes, SandboxInvTypes DEF TasksTypeOK
<1> QED
  BY <1>1, <1>2, <1>3, PTL DEF TasksSpec
=============================================================================
