SPECIFICATION MCSpec
CONSTANTS
    r1 = r1
    r2 = r2
    Requests = {r1, r2}
    Inputs <- MCInputs
    Environments <- MCEnvironments
    Second = 2
    IpRate = 1
    TenantRate = 1
    Addresses = {a1, a2}
    Tenants = {t1}
    NoTenant = NoTenant
    IdleAfter = 3
    burst = burst
    slow = slow
    Keys = {burst, slow}
    MaxRequests <- MCMaxRequests
    Window <- MCWindow
    StaleAfter = 2
    CleanupEvery = 1
    MaxTime = 5
    Callers = {c1, c2}
    DefaultQuota = 0
    Overrides = {1}
    Amounts <- MCAmounts
    MaxAmount = 2
    HoursPerDay = 2
    MaxHours = 2
    MaxLosses = 1
    MaxUses = 2
INVARIANT ShutdownFlushesAudit
CHECK_DEADLOCK FALSE
