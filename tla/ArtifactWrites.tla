--------------------------- MODULE ArtifactWrites ---------------------------
(***************************************************************************)
(* What Orchestrator.delegate does with a model's answer: modes.ts,        *)
(* artifact-mode.ts and path-safety.ts.  An answer in artifact mode is a   *)
(* stream of lines that each carry a file and its hash; in hard-prompt     *)
(* mode it is text with code blocks.  What passes the checks is written    *)
(* next to its place and renamed into it, file by file and without an      *)
(* await, so only a crash or a user may come between two of these steps.   *)
(* Several delegations share a directory: a subtask that lost against its  *)
(* timer goes on beside its retry.                                         *)
(***************************************************************************)
EXTENDS Integers, FiniteSets, Sequences

CONSTANTS
    Delegations,  \* calls of delegate on one working directory
    Places,       \* files of that directory
    Original,     \* content of a file that was there from the start
    UserContent,  \* content of a file the user saved
    Content,      \* pieces of content an answer is made of
    Emissions,    \* what the model may answer in each mode
    Targets,      \* names a caller may pin as its target file
    Numbered,     \* names of code blocks 1, 2, .. when there are several
    Profile,      \* the task profile
    Oversize,     \* pieces of content longer than MAX_ARTIFACT_BYTES
    BinaryLike,   \* pieces of content that look binary
    MaxUserEdits  \* bound: edits of the user

\* A name is the text of a path with what the checks see in it: the file it
\* resolves to, one of Places if that is inside the directory, and so on.
ASSUME ArtifactAssumption ==
    /\ MaxUserEdits \in Nat
    /\ \A e \in Emissions.artifact : DOMAIN e.lines \subseteq Nat
    /\ \A e \in Emissions.hardPrompt : e.blocks \in Seq(Seq(Content))
    /\ ~ Profile.allowOverwrite   \* so in every one of PROFILES

VARIABLES
    settings,  \* ALLOW_LEGACY_JSONL_CONTENT and ALLOW_MARKER_ARTIFACT_FALLBACK
    dir,       \* content of every file, {} where there is none
    call,      \* the delegations
    running,   \* the delegation that writes, {} when none does
    edits,     \* edits of the user so far
    put,       \* history: <<delegation, file, content, overwritten content>> of each rename
    edited,    \* history: files the user saved
    raced      \* history: files the user saved between a check and the rename

artifactVars == <<settings, dir, call, running, edits, put, edited, raced>>

\* work: what is to be written, by its position in the answer.
NotAsked == [phase |-> "idle", mode |-> "none", target |-> {}, emission |-> {}, work |-> <<>>,
             results |-> {}, tmp |-> {}, signals |-> {}, files |-> {}]

ArtifactInit ==
    /\ settings \in [legacy : BOOLEAN, markers : BOOLEAN]
    /\ dir \in [Places -> {{}, {Original}}]
    /\ call = [d \in Delegations |-> NotAsked]
    /\ running = {}
    /\ edits = 0
    /\ put = {}
    /\ edited = {}
    /\ raced = {}
-----------------------------------------------------------------------------
(* Reading an answer.  A line has a shape; a "file" line is a file_write    *)
(* object, with its content, its hash and its way of carrying the content.  *)

Json == {"file", "unknown type", "untyped", "not json"}   \* the lines that begin with a brace

\* The file_write lines that are taken, and the lines that break the protocol.
Taken(line, legacy) ==
    /\ line.shape = "file"
    /\ line.carries = "content_b64" \/ (line.carries = "content" /\ legacy)
    /\ line.hash = "right"
Breaks(line, legacy) ==
    \/ line.shape = "file" /\ ~ Taken(line, legacy)
    \/ line.shape \in {"unknown type", "not json", "FILE", "END", "text"}

\* Marker protocol: a body goes up to the next marker.  END closes it, the next
\* FILE and the end of the answer only if it has a line; the latter is not strict.
parseArtifacts(lines) ==
    LET Marker(i) == lines[i].shape \in {"FILE", "END"}
        Body(i)   == {j \in DOMAIN lines : j > i /\ \A k \in (i + 1)..j : ~ Marker(k)}
        Marked(i) == i + Cardinality(Body(i)) + 1
        Closed(i) == Marked(i) \in DOMAIN lines /\ lines[Marked(i)].shape = "END"
        files     == {i \in DOMAIN lines : lines[i].shape = "FILE"}
    IN [artifacts |-> [i \in {j \in files : Body(j) # {} \/ Closed(j)} |->
                          [name    |-> lines[i].name,
                           content |-> [k \in 1..Cardinality(Body(i)) |-> lines[i + k].content]]],
        strict    |-> \A i \in files : Marked(i) \in DOMAIN lines]

\* JSONL protocol.  When no line is taken the warnings are forgotten: a stream
\* of broken objects alone counts as strict.
parseJsonlArtifacts(lines) ==
    LET taken == {i \in DOMAIN lines : Taken(lines[i], settings.legacy)} IN
    IF taken # {}
    THEN [artifacts |-> [i \in taken |-> [name |-> lines[i].name, content |-> <<lines[i].content>>]],
          strict    |-> \A i \in DOMAIN lines : ~ Breaks(lines[i], settings.legacy)]
    ELSE IF settings.markers THEN parseArtifacts(lines)
    ELSE [artifacts |-> <<>>, strict |-> \E i \in DOMAIN lines : lines[i].shape \in Json]

\* The code blocks of a hard-prompt answer with the names they are written to:
\* a pinned file gets the largest of several blocks, or the only one.
codeBlocks(blocks, target) ==
    LET Size(i)  == Len(blocks[i])
        Largest  == {i \in DOMAIN blocks : Size(i) > 0 /\ \A j \in DOMAIN blocks :
                        Size(j) < Size(i) \/ (Size(j) = Size(i) /\ i <= j)}
    IN [i \in (IF target # {} /\ Len(blocks) > 1 THEN Largest ELSE DOMAIN blocks) |->
          [name    |-> CHOOSE n \in (IF target # {} THEN target
                                     ELSE IF Len(blocks) = 1 THEN {Profile.defaultFile}
                                     ELSE {Numbered[i]}) : TRUE,
           content |-> blocks[i]]]
-----------------------------------------------------------------------------
(* The checks before a write *)

isInsideCwd(name) == name.file \in Places

\* A segment is a link that leads out of the directory, or the file is a link.
segmentsHaveEscapingSymlink(name) == name.link = "escapes"
finalFileIsSymlink(name)          == name.link = "itself"

isBinaryLikeContent(content) == \E i \in DOMAIN content : content[i] \in BinaryLike
exceedsLimit(content)        == \E i \in DOMAIN content : content[i] \in Oversize

disallowedArtifact(name) ==
    \/ name.absolute
    \/ name.hidden
    \/ name.ext # "" /\ name.ext \in Profile.forbiddenExtensions
    \/ Profile.allowedExtensions # {} /\ name.ext \notin Profile.allowedExtensions

forceOverwrite(d) == call[d].target # {}

\* writeArtifacts and persistCodeBlocks make the same checks, in the same order.
Blocked(d, art) ==
    \/ ~ isInsideCwd(art.name)
    \/ disallowedArtifact(art.name)
    \/ segmentsHaveEscapingSymlink(art.name) \/ finalFileIsSymlink(art.name)
    \/ exceedsLimit(art.content) \/ isBinaryLikeContent(art.content)
    \/ dir[art.name.file] # {} /\ ~ forceOverwrite(d) /\ ~ Profile.allowOverwrite
    \/ art.name.file \in Profile.denyPaths
-----------------------------------------------------------------------------
(* A delegation *)

Delegate(d) ==
    /\ call[d].phase = "idle"
    /\ \E m \in {"artifact", "hardPrompt", "schemaContract"}, t \in {{}} \cup {{n} : n \in Targets} :
         /\ m # "hardPrompt" => t = {}
         /\ call' = [call EXCEPT ![d].phase = "asked", ![d].mode = m, ![d].target = t]
    /\ UNCHANGED <<settings, dir, running, edits, put, edited, raced>>

\* The model call, or a prompt that does not compile, fails the delegation.
ExecuteFails(d) ==
    /\ running = {} /\ call[d].phase \in {"asked", "asked again"}
    /\ call' = [call EXCEPT ![d].phase = "failed"]
    /\ UNCHANGED <<settings, dir, running, edits, put, edited, raced>>

Truncated(e) == e.finish = "length"

\* Where no contract is found in the answer it is asked for a second time; the
\* finish reason stays that of the first answer.
ContractMissing(d, e) ==
    /\ call[d].mode = "schemaContract" /\ ~ e.contract
    /\ call' = [call EXCEPT ![d].phase = IF @ = "asked" THEN "asked again" ELSE "failed",
                            ![d].emission = {e}]
    /\ UNCHANGED running

ContractAnswered(d, e) ==
    /\ call[d].mode = "schemaContract" /\ e.contract
    /\ call' = [call EXCEPT
         ![d].phase    = "done",
         ![d].emission = IF @ = {} THEN {e} ELSE @,
         ![d].signals  = {"emission", "schema.validated"}
                         \cup {x \in {"artifact.truncated"} :
                                 \E first \in IF call[d].emission = {} THEN {e} ELSE call[d].emission :
                                    Truncated(first)}]
    /\ UNCHANGED running

ArtifactsAnswered_WritesTruncated(d, e) ==
    LET parsed == parseJsonlArtifacts(e.lines) IN
    /\ call[d].mode = "artifact"
    /\ call' = [call EXCEPT
         ![d].phase    = "writing",
         ![d].emission = {e},
         ![d].work     = IF ~ parsed.strict THEN <<>> ELSE parsed.artifacts,
         ![d].signals  = {"emission"}
                         \cup {x \in {"artifact.unterminated"} : ~ parsed.strict}
                         \cup {x \in {"artifact.truncated"} : Truncated(e)}]
    /\ running' = {d}

Artifacts(work) == {work[i] : i \in DOMAIN work}

\* A broken protocol and a truncated answer block every file of the answer.
ArtifactsAnswered(d, e) ==
    LET parsed == parseJsonlArtifacts(e.lines)
        broken == ~ parsed.strict \/ Truncated(e)
    IN /\ call[d].mode = "artifact"
       /\ call' = [call EXCEPT
            ![d].phase    = "writing",
            ![d].emission = {e},
            ![d].work     = IF broken THEN <<>> ELSE parsed.artifacts,
            ![d].results  = IF broken
                            THEN {[name |-> art.name, ok |-> FALSE, content |-> art.content] :
                                    art \in Artifacts(parsed.artifacts)}
                            ELSE {},
            ![d].signals  = {"emission"}
                            \cup {x \in {"artifact.unterminated"} : ~ parsed.strict}
                            \cup {x \in {"artifact.truncated"} : Truncated(e)}]
       /\ running' = {d}

BlocksAnswered(d, e) ==
    /\ call[d].mode = "hardPrompt"
    /\ call' = [call EXCEPT
         ![d].phase    = "writing",
         ![d].emission = {e},
         ![d].work     = IF Truncated(e) THEN <<>> ELSE codeBlocks(e.blocks, call[d].target),
         ![d].signals  = {"emission", "files.written"}
                         \cup {x \in {"artifact.truncated"} : Truncated(e)}]
    /\ running' = {d}

Answered(d) ==
    /\ running = {} /\ call[d].phase \in {"asked", "asked again"}
    /\ \E e \in Emissions[call[d].mode] :
         \/ ContractMissing(d, e) \/ ContractAnswered(d, e)
         \/ ArtifactsAnswered(d, e) \/ BlocksAnswered(d, e)
    /\ UNCHANGED <<settings, dir, edits, put, edited, raced>>

\* The file of an answer that comes next, the others, and the next one's result.
First(work)   == CHOOSE i \in DOMAIN work : \A j \in DOMAIN work : i <= j
Current(d)    == call[d].work[First(call[d].work)]
Rest(work)    == [i \in DOMAIN work \ {First(work)} |-> work[i]]
Result(d, ok) == [name |-> Current(d).name, ok |-> ok, content |-> Current(d).content]

\* The checks of the next file; a file that fails one is passed over.
CheckNext(d) ==
    /\ d \in running /\ call[d].phase = "writing" /\ DOMAIN call[d].work # {}
    /\ call' = IF Blocked(d, Current(d))
               THEN [call EXCEPT ![d].results = @ \cup {Result(d, FALSE)}, ![d].work = Rest(@)]
               ELSE [call EXCEPT ![d].phase = "checked"]
    /\ UNCHANGED <<settings, dir, running, edits, put, edited, raced>>

\* The directory is made and the content written under a temporary name.
WriteTmp(d) ==
    /\ d \in running /\ call[d].phase = "checked" /\ call[d].tmp = {}
    /\ call' = [call EXCEPT ![d].tmp = {Current(d).content}]
    /\ UNCHANGED <<settings, dir, running, edits, put, edited, raced>>

\* mkdir, write or rename throws.  A temporary file stays behind, under a name
\* that nothing reads again; so does one of a process that dies.
WriteFails(d) ==
    /\ d \in running /\ call[d].phase = "checked"
    /\ call' = [call EXCEPT ![d].phase = "writing", ![d].tmp = {},
                            ![d].results = @ \cup {Result(d, FALSE)}, ![d].work = Rest(@)]
    /\ UNCHANGED <<settings, dir, running, edits, put, edited, raced>>

Rename(d) ==
    LET art == Current(d) IN
    /\ d \in running /\ call[d].phase = "checked" /\ call[d].tmp # {}
    /\ dir' = [dir EXCEPT ![art.name.file] = call[d].tmp]
    /\ put' = put \cup {<<d, art.name.file, {art.content}, dir[art.name.file]>>}
    /\ call' = [call EXCEPT ![d].phase = "writing", ![d].tmp = {},
                            ![d].results = @ \cup {Result(d, TRUE)}, ![d].work = Rest(@)]
    /\ UNCHANGED <<settings, running, edits, edited, raced>>

\* The hash in the report is of what was to be written in artifact mode, of
\* what is read back in hard-prompt mode.
ReportedHash(d, r) == IF call[d].mode = "artifact" THEN {r.content} ELSE dir[r.name.file]

Report(d) ==
    LET ok == {r \in call[d].results : r.ok}
    IN /\ d \in running /\ call[d].phase = "writing" /\ DOMAIN call[d].work = {}
       /\ running' = {}
       /\ call' = [call EXCEPT
            ![d].phase   = "done",
            ![d].results = {},
            ![d].files   = {[file |-> r.name.file, hash |-> ReportedHash(d, r)] : r \in ok},
            ![d].signals = @ \cup {"artifact.emitted"}
                             \cup {x \in {"artifact.blocked"} : ok # call[d].results}]
       /\ UNCHANGED <<settings, dir, edits, put, edited, raced>>

\* The process of the orchestrator dies, with every delegation that it runs.
ProcessDies ==
    /\ \E d \in Delegations : call[d].phase \in {"asked", "asked again", "writing", "checked"}
    /\ call' = [d \in Delegations |->
                  IF call[d].phase \in {"asked", "asked again", "writing", "checked"}
                  THEN [call[d] EXCEPT !.phase = "dead", !.tmp = {}, !.work = <<>>, !.results = {}]
                  ELSE call[d]]
    /\ running' = {}
    /\ UNCHANGED <<settings, dir, edits, put, edited, raced>>

UserSaves(f) ==
    /\ edits < MaxUserEdits
    /\ edits' = edits + 1
    /\ dir' = [dir EXCEPT ![f] = {UserContent}]
    /\ edited' = edited \cup {f}
    /\ raced' = raced \cup {g \in {f} : \E d \in running : call[d].phase = "checked"
                                             /\ Current(d).name.file = g}
    /\ UNCHANGED <<settings, call, running, put>>

ArtifactNext ==
    \/ \E d \in Delegations :
         \/ Delegate(d) \/ ExecuteFails(d) \/ Answered(d)
         \/ CheckNext(d) \/ WriteTmp(d) \/ WriteFails(d) \/ Rename(d) \/ Report(d)
    \/ \E f \in Places : UserSaves(f)
    \/ ProcessDies

ArtifactSpec == ArtifactInit /\ [][ArtifactNext]_artifactVars
-----------------------------------------------------------------------------
ArtifactTypeOK ==
    /\ settings \in [legacy : BOOLEAN, markers : BOOLEAN]
    /\ DOMAIN dir = Places
    /\ running \subseteq Delegations /\ Cardinality(running) <= 1
    /\ edits \in 0..MaxUserEdits
    /\ edited \subseteq Places /\ raced \subseteq edited
    /\ \A d \in Delegations :
         call[d].phase \in {"idle", "asked", "asked again", "writing", "checked", "done",
                            "failed", "dead"}

Reports(d, f, h) == [file |-> f, hash |-> h] \in call[d].files

\* Every content the program put into a file is whole, comes from an answer
\* that was neither truncated nor broken, and is reported by its delegation
\* unless that died before its report.
PutsReported ==
    /\ \A f \in Places : \/ dir[f] \in {{}, {Original}, {UserContent}}
                         \/ \E p \in put : p[2] = f /\ p[3] = dir[f]
    /\ \A p \in put :
         /\ \A e \in call[p[1]].emission : ~ Truncated(e)
         /\ "artifact.unterminated" \notin call[p[1]].signals
         /\ call[p[1]].phase = "done" => \E h \in {p[3], {UserContent}} : Reports(p[1], p[2], h)

\* A file somebody had there is replaced only where the caller pinned it, or
\* where it appeared between the check and the rename.
NothingOverwritten ==
    \A p \in put : p[4] # {} => forceOverwrite(p[1]) \/ p[2] \in raced

\* What a finished delegation reported as written is what the file holds,
\* until the user or a delegation with that file as its target writes it.
ReportStays ==
    \A d \in Delegations : call[d].phase = "done" =>
      \A x \in call[d].files :
        \/ dir[x.file] = x.hash
        \/ x.file \in edited
        \/ \E p \in put : p[1] # d /\ p[2] = x.file /\ forceOverwrite(p[1])

\* A line of an artifact answer that carries a file ends in the report or in a
\* signal of trouble, unless no line of the answer could be used.
NothingSilent ==
    \A d \in Delegations : call[d].phase = "done" /\ call[d].mode = "artifact" =>
      \A e \in call[d].emission : \A i \in DOMAIN e.lines :
        \/ e.lines[i].shape # "file"
        \/ \E x \in call[d].files : x.file = e.lines[i].name.file
        \/ call[d].signals \cap {"artifact.blocked", "artifact.unterminated", "artifact.truncated"} # {}
        \/ \A j \in DOMAIN e.lines : ~ Taken(e.lines[j], settings.legacy)

\* What delegations write and what they report agree, over delegations that
\* share a directory, failing writes, a crash and a user who saves files: no
\* answer is written in part by mistake, none overwrites a file unasked, and
\* no file of an answer disappears without a signal (path-safety.ts
\* writeArtifacts, modes.ts persistCodeBlocks, artifact-mode.ts executeArtifact).
WritesAccounted == PutsReported /\ NothingOverwritten /\ ReportStays /\ NothingSilent
=============================================================================
