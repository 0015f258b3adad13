SPECIFICATION MCSpec
CONSTANTS
    a = a
    b = b
    c = c
    d = d
    t1 = t1
    t10 = t10
    TaskIds = {t1, t10}
    IdContains <- MCIdContains
    Similar <- MCSimilar
    SubtaskIds = {a, b, c, d}
    Words = {"python", "cobol", "text", "simple", "hard"}
    Answers <- MCAnswers
    NotJson = NotJson
    PolicyFiles <- MCPolicyFiles
    DefaultModel = "m"
    MaxSubtasks = 3
    MaxPlans = 2
    Processes = {p1, p2}
    Runs = {u1, u2}
    Files = {f1}
    MaxWrites = 2
    MaxCrashes = 1
    Invocations <- MCInvocations
    MaxOutput = 1
    f = f
    g = g
    x = x
    y = y
    big = big
    Delegations = {d1, d2}
    Places = {f, g}
    Content = {x, y, big}
    Original = Original
    UserContent = UserContent
    Emissions <- MCEmissions
    Targets <- MCTargets
    Numbered <- MCNumbered
    Profile <- MCProfile
    Oversize = {big}
    BinaryLike = {}
    MaxUserEdits = 1
INVARIANTS
    TasksTypeOK
    PlanFollowed
    PlanAccounted
    StoreWhole
    SandboxHonest
    WritesAccounted
PROPERTIES
    TasksEnd
CHECK_DEADLOCK FALSE
