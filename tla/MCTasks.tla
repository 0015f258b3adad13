------------------------------ MODULE MCTasks -------------------------------
(***************************************************************************)
(* Plans, files, store and sandbox for TLC.  They share no state, so a     *)
(* behaviour is one of a single part: focus, chosen at the start.          *)
(***************************************************************************)
EXTENDS Tasks

CONSTANTS a, b, c, d,  \* ids of subtasks
          t1, t10,     \* tasks; the text of t10 contains that of t1
          f, g,        \* files of a working directory
          x, y, big    \* pieces of content

VARIABLE focus         \* the part that takes steps

mcVars == <<focus, tasksVars>>

Subtask(id, deps) ==
    [id |-> id, dependsOn |-> deps, language |-> "python", complexity |-> "simple"]
MCAnswers ==
    {NotJson, <<>>,
     <<Subtask(a, <<>>), Subtask(a, <<>>)>>,
     <<Subtask(a, <<b>>), Subtask(b, <<a>>)>>,
     <<Subtask(a, <<c>>)>>,
     <<Subtask(a, <<a>>)>>,
     <<Subtask(a, <<>>), Subtask(b, <<>>), Subtask(c, <<>>), Subtask(d, <<>>)>>,
     <<[Subtask(a, <<>>) EXCEPT !.complexity = "hard"]>>,
     <<Subtask(c, <<a, b>>), Subtask(b, <<a>>), Subtask(a, <<>>)>>,
     <<[Subtask(b, <<>>) EXCEPT !.language = "cobol"], Subtask(a, <<b, b>>)>>}
MCIdContains == {<<t1, t1>>, <<t10, t10>>, <<t10, t1>>}
MCSimilar    == {<<t1, t10>>}

PolicyFile(tools) ==
    [readable |-> TRUE, version |-> 1,
     sections |-> {"tools", "models", "workspaces", "execution"},
     policy   |-> [tools  |-> [allowed |-> tools, denied |-> {"shell"}],
                   models |-> [allowed |-> {"m"}, allowedProviders |-> {}]]]
MCPolicyFiles == {PolicyFile({"python", "shell"}),
                  [PolicyFile({"text"}) EXCEPT !.sections = {"tools", "models"}]}

Base == [maxTime |-> 2, networkAllowed |-> FALSE, networkAllowlist |-> {},
         networkDenylist |-> {"host"}, shellAllowed |-> TRUE, allowedCommands |-> {"tsc"},
         allowedReadPaths |-> {"root"}, allowedWritePaths |-> {}]
Call == [command |-> "tsc", paths |-> {"root"}, base |-> Base, tenant |-> {}, docker |-> FALSE,
         enterprise |-> FALSE, unsafeHostSandbox |-> FALSE, secretEnv |-> FALSE,
         inheritParentEnv |-> FALSE, parentSecrets |-> TRUE, beforeHook |-> "none"]
MCInvocations ==
    {Call,
     [Call EXCEPT !.secretEnv = TRUE],
     [Call EXCEPT !.secretEnv = TRUE, !.unsafeHostSandbox = TRUE],
     [Call EXCEPT !.inheritParentEnv = TRUE],
     [Call EXCEPT !.inheritParentEnv = TRUE, !.docker = TRUE],
     [Call EXCEPT !.enterprise = TRUE, !.docker = TRUE],
     [Call EXCEPT !.enterprise = TRUE, !.unsafeHostSandbox = TRUE, !.docker = TRUE],
     [Call EXCEPT !.enterprise = TRUE, !.unsafeHostSandbox = TRUE, !.inheritParentEnv = TRUE],
     [Call EXCEPT !.paths = {"elsewhere"}],
     [Call EXCEPT !.beforeHook = "refuses"],
     [Call EXCEPT !.base.networkAllowlist = {"host"}],
     [Call EXCEPT !.command = "curl",
                  !.tenant = {[Base EXCEPT !.allowedCommands = {"curl"}, !.maxTime = 1]}],
     [Call EXCEPT !.command = "curl", !.base.allowedCommands = {},
                  !.tenant = {[Base EXCEPT !.allowedCommands = {"curl"}]}]}

Name(file) == [file |-> file, spelled |-> "plain", absolute |-> FALSE,
               hidden |-> FALSE, ext |-> ".ts", link |-> "none"]
MCProfile  == [defaultFile |-> Name(f), allowedExtensions |-> {".ts", ".txt"},
               forbiddenExtensions |-> {".py"}, allowOverwrite |-> FALSE, denyPaths |-> {}]
MCNumbered == <<Name(f), Name(g)>>
MCTargets  == {Name(f)}
Line(shape, name, content) ==
    [shape |-> shape, name |-> name, content |-> content, carries |-> "content_b64", hash |-> "right"]
Answer(lines) == [lines |-> lines, finish |-> "stop"]
MCEmissions ==
    LET Put(file, content) == Line("file", Name(file), content) IN
    [artifact |->
        {Answer(<<Put(f, x), Put(g, y)>>),
         Answer(<<Put(f, x), Line("file", [Name(f) EXCEPT !.spelled = "./"], y)>>),
         [Answer(<<Put(f, x), Put(g, y)>>) EXCEPT !.finish = "length"],
         Answer(<<[Put(g, y) EXCEPT !.hash = "wrong"]>>),
         Answer(<<Put(g, x), [Put(f, y) EXCEPT !.carries = "content"]>>),
         Answer(<<Put(g, big), Line("file", [Name(f) EXCEPT !.ext = ".py"], y),
                  Line("file", [Name(f) EXCEPT !.link = "escapes"], x), Line("untyped", Name(f), x)>>),
         Answer(<<Line("file", [Name(f) EXCEPT !.file = "outside"], x), Put(g, y)>>),
         Answer(<<Line("FILE", Name(f), x), Line("text", Name(f), x), Line("text", Name(f), y),
                  Line("FILE", Name(g), x), Line("text", Name(g), y), Line("END", Name(g), x)>>),
         Answer(<<Line("FILE", Name(g), x), Line("text", Name(g), y)>>)},
     hardPrompt |->
        {[blocks |-> <<<<x>>, <<x, y>>>>, finish |-> "stop"],
         [blocks |-> <<<<>>>>, finish |-> "stop"],
         [blocks |-> <<<<x>>>>, finish |-> "length"]},
     schemaContract |->
        {[contract |-> TRUE, finish |-> "length"], [contract |-> FALSE, finish |-> "stop"]}]

MCInit ==
    /\ focus \in {"plan", "files", "store", "sandbox"}
    /\ TasksInit
    /\ settings.legacy = settings.markers /\ dir[g] = {}
    /\ focus # "files" => settings = [legacy |-> FALSE, markers |-> FALSE]
                          /\ dir = [h \in Places |-> {}]
    /\ focus # "plan" => engine = {}
    /\ focus # "store" => db = Fresh

MCPlan ==
    focus = "plan" /\ PlanNext /\ UNCHANGED <<focus, artifactVars, storeVars, sandboxVars>>
MCFiles ==
    focus = "files" /\ ArtifactNext /\ UNCHANGED <<focus, planVars, storeVars, sandboxVars>>
MCStore ==
    focus = "store" /\ StoreNext /\ UNCHANGED <<focus, planVars, artifactVars, sandboxVars>>
MCSandbox ==
    focus = "sandbox" /\ SandboxNext /\ UNCHANGED <<focus, planVars, artifactVars, storeVars>>

MCNext == MCPlan \/ MCFiles \/ MCStore \/ MCSandbox

MCSpec == MCInit /\ [][MCNext]_mcVars /\ PlanFairness /\ SandboxFairness

\* A call of executeDecomposition is answered, whatever its subtasks do, and a
\* sandboxed run ends as long as no process that left the group keeps its pipes.
TasksEnd == PlanEnds /\ SandboxReturns
=============================================================================
