---------------------------- MODULE Decomposition ---------------------------
(***************************************************************************)
(* orchestrator-decompose.ts: a task is broken into subtasks by a model    *)
(* call whose answer is validated, sorted and stored while the caller      *)
(* already has its answer; a stored plan is recalled and its subtasks are  *)
(* delegated one after the other, each against a timer and with one retry. *)
(* A delegate that lost against its timer goes on running.                 *)
(***************************************************************************)
EXTENDS Policy, Sequences

CONSTANTS
    TaskIds,      \* tasks that are decomposed
    IdContains,   \* pairs <<d, q>> of task ids: the text of d contains q
    Similar,      \* pairs <<d, q>>: enough words of q are in d's description
    SubtaskIds,   \* ids an answer may give a subtask
    Words,        \* words an answer may give for a language or a complexity
    Answers,      \* what the model may answer: NotJson or a sequence of nodes
    NotJson,
    PolicyFiles,  \* policy files an engine may be loaded from
    DefaultModel, \* the model of the default provider
    MaxSubtasks,  \* most subtasks a plan may have (24)
    MaxPlans      \* bound: decompositions asked for

TaskNodes == [id : SubtaskIds, dependsOn : Seq(SubtaskIds), language : Words, complexity : Words]

ASSUME PlanAssumption ==
    /\ "text" \in Words
    /\ \A answer \in Answers : answer = NotJson \/ answer \in Seq(TaskNodes)
    /\ \A f \in PolicyFiles : DOMAIN f.policy = {"tools", "models"}
    /\ IdContains \subseteq TaskIds \X TaskIds /\ Similar \subseteq TaskIds \X TaskIds
    /\ \A t \in TaskIds : <<t, t>> \in IdContains
    /\ MaxSubtasks \in Nat /\ MaxPlans \in Nat

VARIABLES
    engine,       \* the policy in force, {} without a policy engine
    asking,       \* decomposeTask of each task: "idle", "asked" or "asked again"
    asked,        \* decompositions asked for so far
    writing,      \* writeDecomposition calls nobody waits for
    plans,        \* the decompositions in the memory store
    exec,         \* the call of executeDecomposition
    inFlight,     \* delegated subtasks that run
    shuttingDown

planVars == <<engine, asking, asked, writing, plans, exec, inFlight, shuttingDown>>

validLanguages    == {"typescript", "javascript", "python", "shell", "cpp", "c", "rust",
                      "go", "sql", "text"}
validComplexities == {"trivial", "simple", "moderate", "complex"}

NoCall == [phase |-> "idle", task |-> {}, order |-> <<>>, pos |-> 0,
           completed |-> <<>>, results |-> {}, attempt |-> 0]
Ended  == {"answered", "refused", "no plan", "bad graph", "no dependency"}

PlanInit ==
    /\ engine \in {{}} \cup {{loadFromFile(DEFAULT_POLICY, f)} : f \in PolicyFiles}
    /\ asking = [t \in TaskIds |-> "idle"]
    /\ asked = 0
    /\ writing = {}
    /\ plans = {}
    /\ exec = NoCall
    /\ inFlight = {}
    /\ shuttingDown = FALSE
-----------------------------------------------------------------------------
(* The plan *)

Ids(nodes)      == {nodes[i].id : i \in DOMAIN nodes}
dependencies(n) == {n.dependsOn[i] : i \in DOMAIN n.dependsOn}

\* topologicalSort: Kahn's algorithm.  taken are the positions of the nodes
\* taken so far.  A node has the degree 0 when its dependencies are all taken;
\* then it enters the queue, after those that did so before it, and together
\* with others in the order of the input.
Free(nodes, taken)  == {i \in DOMAIN nodes :
                          dependencies(nodes[i]) \subseteq {nodes[taken[k]].id : k \in DOMAIN taken}}
Queue(nodes, taken) == Free(nodes, taken) \ {taken[k] : k \in DOMAIN taken}
Entered(nodes, taken, i) ==
    Cardinality({k \in 0..Len(taken) : i \notin Free(nodes, SubSeq(taken, 1, k))})
Front(nodes, taken) ==
    CHOOSE i \in Queue(nodes, taken) : \A j \in Queue(nodes, taken) :
        \/ Entered(nodes, taken, i) < Entered(nodes, taken, j)
        \/ Entered(nodes, taken, i) = Entered(nodes, taken, j) /\ i <= j

Take(nodes, taken) ==
    IF Queue(nodes, taken) = {} THEN taken ELSE Append(taken, Front(nodes, taken))

Rounds(nodes) ==
    LET round[k \in 0..Len(nodes)] == IF k = 0 THEN <<>> ELSE Take(nodes, round[k - 1])
    IN round

topologicalSort(nodes) ==
    LET taken == Rounds(nodes)[Len(nodes)]
    IN [ok |-> Len(taken) = Len(nodes), value |-> [k \in DOMAIN taken |-> nodes[taken[k]]]]

\* parseDecomposition: what is wrong with an answer, in the order of the code,
\* does not matter to the caller; a language nobody knows becomes text.
parseDecomposition_NoLimit(answer) ==
    IF \/ answer = NotJson
       \/ answer = <<>>
       \/ \E i, j \in DOMAIN answer : i # j /\ answer[i].id = answer[j].id
       \/ \E i \in DOMAIN answer :
             \/ answer[i].complexity \notin validComplexities
             \/ answer[i].id \in dependencies(answer[i])
             \/ ~ (dependencies(answer[i]) \subseteq Ids(answer))
    THEN [ok |-> FALSE, value |-> <<>>]
    ELSE topologicalSort(answer)

parseDecomposition(answer) ==
    IF \/ answer = NotJson
       \/ answer = <<>>
       \/ \E i, j \in DOMAIN answer : i # j /\ answer[i].id = answer[j].id
       \/ \E i \in DOMAIN answer :
             \/ answer[i].complexity \notin validComplexities
             \/ answer[i].id \in dependencies(answer[i])
             \/ ~ (dependencies(answer[i]) \subseteq Ids(answer))
       \/ Len(answer) > MaxSubtasks
    THEN [ok |-> FALSE, value |-> <<>>]
    ELSE topologicalSort([i \in DOMAIN answer |->
            [answer[i] EXCEPT !.language = IF @ \in validLanguages THEN @ ELSE "text"]])

Allows(model, tools) ==
    \A p \in engine : checkModel(p, model, {}) /\ \A t \in tools : checkTool(p, t)
-----------------------------------------------------------------------------
(* decomposeTask *)

\* The checks before the model is asked.  A refusal, or an agent that cannot
\* be made, changes nothing.
decomposeTask(t, language) ==
    /\ asking[t] = "idle"
    /\ asked < MaxPlans
    /\ ~shuttingDown
    /\ Allows(DefaultModel, {language})
    /\ asking' = [asking EXCEPT ![t] = "asked"]
    /\ asked' = asked + 1
    /\ UNCHANGED <<engine, writing, plans, exec, inFlight, shuttingDown>>

\* The model answers, or fails.  A first answer that does not parse is asked
\* for again; a plan is handed to the store and the caller is answered.
ModelAnswers(t) ==
    /\ asking[t] \in {"asked", "asked again"}
    /\ \/ \E answer \in Answers :
             LET plan == parseDecomposition(answer) IN
             /\ writing' = IF plan.ok
                           THEN writing \cup {[task |-> t, at |-> asked, tasks |-> plan.value]}
                           ELSE writing
             /\ asking' = [asking EXCEPT ![t] = IF ~plan.ok /\ @ = "asked" THEN "asked again"
                                                ELSE "idle"]
       \/ asking' = [asking EXCEPT ![t] = "idle"] /\ UNCHANGED writing
    /\ UNCHANGED <<engine, asked, plans, exec, inFlight, shuttingDown>>

\* writeDecomposition ends; a failure is swallowed.
writeDecomposition(p) ==
    /\ writing' = writing \ {p}
    /\ plans' \in {plans, plans \cup {p}}
    /\ UNCHANGED <<engine, asking, asked, exec, inFlight, shuttingDown>>
-----------------------------------------------------------------------------
(* executeDecomposition *)

Newest(S) == {p \in S : \A q \in S : q.at <= p.at}

\* recallDecomposition: the newest plan whose task is q or whose record id
\* contains it, otherwise one whose description is alike.
recallDecomposition(q) ==
    LET byId == {p \in plans : <<p.task, q>> \in IdContains}
    IN IF byId # {} THEN Newest(byId) ELSE {p \in plans : <<p.task, q>> \in Similar}

\* The recall, the policy check of every language in the plan and the sort.
executeDecomposition(q) ==
    LET Fails(why) == exec' = [NoCall EXCEPT !.phase = why, !.task = {q}] IN
    /\ exec.phase = "idle"
    /\ \/ shuttingDown /\ Fails("refused")
       \/ /\ ~shuttingDown
          /\ recallDecomposition(q) = {}
          /\ Fails("no plan")
       \/ /\ ~shuttingDown
          /\ \E p \in recallDecomposition(q) :
                IF ~Allows(DefaultModel, {p.tasks[i].language : i \in DOMAIN p.tasks}) THEN Fails("refused")
                ELSE IF ~topologicalSort(p.tasks).ok THEN Fails("bad graph")
                ELSE exec' = [NoCall EXCEPT !.phase = "next", !.task = {q}, !.pos = 1,
                                            !.order = topologicalSort(p.tasks).value]
    /\ UNCHANGED <<engine, asking, asked, writing, plans, inFlight, shuttingDown>>

Node == exec.order[exec.pos]

\* What is left of the loop once a node has its results.
Completed(results, ok) ==
    [exec EXCEPT !.phase = IF exec.pos = Len(exec.order) THEN "answered" ELSE "next",
                 !.pos = @ + 1,
                 !.attempt = 0,
                 !.results = @ \cup results,
                 !.completed = Append(@, [id |-> Node.id, ok |-> ok])]

Failed(id) == \E k \in DOMAIN exec.completed : exec.completed[k].id = id /\ ~exec.completed[k].ok

\* The dependencies of n that failed, by their position, and the results of a
\* node: one for each of these (after), or the one of a node that ran.
FailedDependencies(n) == {i \in DOMAIN n.dependsOn : Failed(n.dependsOn[i])}
Skipped(n)            == {[node |-> n.id, after |-> i, ok |-> FALSE] : i \in FailedDependencies(n)}
Ran(n, ok)            == {[node |-> n.id, after |-> 0, ok |-> ok]}

\* delegate, the first time or again; it refuses while shutting down.
Attempt(k) == [node |-> Node, try |-> k, refused |-> shuttingDown, late |-> FALSE]

\* The loop comes to a node.  One result is pushed for every dependency that
\* failed, since the continue only leaves the inner loop.
NextSubtask_RunsAnyway ==
    /\ exec.phase = "next"
    /\ exec' = [exec EXCEPT !.phase = "waiting", !.attempt = 1]
    /\ inFlight' = inFlight \cup {Attempt(1)}
    /\ UNCHANGED <<engine, asking, asked, writing, plans, shuttingDown>>

NextSubtask_SkipsSilently ==
    /\ exec.phase = "next"
    /\ IF FailedDependencies(Node) # {}
       THEN exec' = Completed({}, FALSE) /\ UNCHANGED inFlight
       ELSE /\ exec' = [exec EXCEPT !.phase = "waiting", !.attempt = 1]
            /\ inFlight' = inFlight \cup {Attempt(1)}
    /\ UNCHANGED <<engine, asking, asked, writing, plans, shuttingDown>>

NextSubtask ==
    /\ exec.phase = "next"
    /\ IF ~ (dependencies(Node) \subseteq Ids(exec.completed))
       THEN exec' = [exec EXCEPT !.phase = "no dependency"] /\ UNCHANGED inFlight
       ELSE IF FailedDependencies(Node) # {}
       THEN exec' = Completed(Skipped(Node), FALSE) /\ UNCHANGED inFlight
       ELSE /\ exec' = [exec EXCEPT !.phase = "waiting", !.attempt = 1]
            /\ inFlight' = inFlight \cup {Attempt(1)}
    /\ UNCHANGED <<engine, asking, asked, writing, plans, shuttingDown>>

Awaited(a) == exec.phase = "waiting" /\ a.node = Node /\ a.try = exec.attempt /\ ~a.late

\* The attempt that is waited for gives an error or loses against its timer:
\* the first one is repeated, the second one fails the node.  others is what
\* runs beside it.
AttemptFails(others) ==
    IF exec.attempt = 1
    THEN exec' = [exec EXCEPT !.attempt = 2] /\ inFlight' = others \cup {Attempt(2)}
    ELSE exec' = Completed(Ran(Node, FALSE), FALSE) /\ inFlight' = others

\* A delegate ends, with an error or the verdict of its packet.  Nobody looks
\* at one that is late.
DelegateEnds(a, verdict) ==
    LET others == inFlight \ {a} IN
    /\ a.refused => verdict = "error"
    /\ IF ~Awaited(a) THEN inFlight' = others /\ UNCHANGED exec
       ELSE IF verdict = "error" THEN AttemptFails(others)
       ELSE /\ exec' = Completed(Ran(Node, verdict \in {"pass", "warn"}), verdict \in {"pass", "warn"})
            /\ inFlight' = others
    /\ UNCHANGED <<engine, asking, asked, writing, plans, shuttingDown>>

\* The timer of five minutes; the delegate goes on.
AttemptTimesOut(a) ==
    /\ Awaited(a)
    /\ ~a.refused
    /\ AttemptFails((inFlight \ {a}) \cup {[a EXCEPT !.late = TRUE]})
    /\ UNCHANGED <<engine, asking, asked, writing, plans, shuttingDown>>

ShutdownBegins ==
    /\ ~shuttingDown
    /\ shuttingDown' = TRUE
    /\ UNCHANGED <<engine, asking, asked, writing, plans, exec, inFlight>>

AwaitedEnds ==
    \E a \in inFlight :
        /\ Awaited(a)
        /\ \/ \E v \in {"pass", "warn", "fail", "unknown", "error"} : DelegateEnds(a, v)
           \/ AttemptTimesOut(a)

PlanNext ==
    \/ \E t \in TaskIds :
          \/ \E l \in validLanguages : decomposeTask(t, l)
          \/ ModelAnswers(t)
          \/ executeDecomposition(t)
    \/ \E p \in writing : writeDecomposition(p)
    \/ NextSubtask
    \/ AwaitedEnds
    \/ \E a \in inFlight : ~Awaited(a) /\ DelegateEnds(a, "error")
    \/ ShutdownBegins

PlanSpec == PlanInit /\ [][PlanNext]_planVars

\* The loop goes on by itself, and an attempt ends or its timer rings.
PlanFairness == WF_planVars(NextSubtask) /\ WF_planVars(AwaitedEnds)
-----------------------------------------------------------------------------
PlanTypeOK ==
    /\ \A p \in engine : DOMAIN p = {"tools", "models"}
    /\ asking \in [TaskIds -> {"idle", "asked", "asked again"}]
    /\ asked \in 0..MaxPlans
    /\ \A p \in writing \cup plans : p.task \in TaskIds /\ Len(p.tasks) \in 1..MaxSubtasks
    /\ exec.phase \in {"idle", "next", "waiting"} \cup Ended
    /\ exec.phase \in {"next", "waiting"} => exec.pos \in DOMAIN exec.order
    /\ \A a \in inFlight : a.try \in {1, 2}

\* A subtask runs only after every subtask it depends on succeeded, in a
\* language the policy allows; beside the attempt that is waited for there
\* run only attempts that timed out, also when a retry or a dependent subtask
\* has begun meanwhile.
PlanFollowed ==
    /\ \A a \in inFlight :
          /\ \A d \in dependencies(a.node) :
                \E k \in DOMAIN exec.completed : exec.completed[k] = [id |-> d, ok |-> TRUE]
          /\ \A p \in engine : checkTool(p, a.node.language)
          /\ a.late \/ Awaited(a)
    /\ exec.phase = "waiting" => \E a \in inFlight : Awaited(a)

\* A plan that decomposeTask stored can be executed: the loop meets neither a
\* cycle nor a missing dependency, whatever the model answered.  An answered
\* call accounts for every subtask: one result for each that ran, one for each
\* failed dependency of one that was skipped, and succeededCount counts
\* subtasks.
PlanAccounted ==
    /\ exec.phase \notin {"bad graph", "no dependency"}
    /\ exec.phase = "answered" =>
          /\ Len(exec.completed) = Len(exec.order)
          /\ \A k \in DOMAIN exec.order :
                Cardinality({r \in exec.results : r.node = exec.order[k].id})
                  = IF FailedDependencies(exec.order[k]) = {} THEN 1
                    ELSE Cardinality(FailedDependencies(exec.order[k]))
          /\ Cardinality({r \in exec.results : r.ok})
                = Cardinality({exec.completed[k].id : k \in {j \in DOMAIN exec.completed :
                                                                exec.completed[j].ok}})

\* A call of executeDecomposition is answered, whatever its subtasks do.
PlanEnds == exec.phase \in {"next", "waiting"} ~> exec.phase \in Ended
=============================================================================
