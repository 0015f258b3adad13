----------------------------- MODULE RateLimits -----------------------------
(***************************************************************************)
(* The two rate limiters: the health server's token buckets, per tenant    *)
(* and per address, with the timer that forgets idle buckets; and          *)
(* RateLimiter of core-enterprise, a sliding window per key with a cleanup *)
(* of old entries.  Tokens are counted in parts of 1/Second, so that the   *)
(* refill of a tick is a whole number.                                     *)
(***************************************************************************)
EXTENDS Integers, Sequences

CONSTANTS
    Second,       \* ticks of a second
    IpRate,       \* rateLimitPerSec
    TenantRate,   \* rateLimitPerSecPerTenant
    Addresses,    \* addresses of clients
    Tenants,      \* tenants of authenticated actors
    NoTenant,     \* the actor has no tenant
    IdleAfter,    \* 60 s: ticks after which an idle bucket is forgotten
    Keys,         \* keys of RateLimiter
    MaxRequests,  \* maxRequests of each key
    Window,       \* windowMs of each key, in ticks
    StaleAfter,   \* 1 h: ticks after which an entry is stale
    CleanupEvery, \* CLEANUP_INTERVAL_MS, in ticks
    MaxTime       \* bound: ticks

ASSUME RateAssumption ==
    /\ Second \in Nat \ {0} /\ IpRate \in Nat /\ TenantRate \in Nat
    /\ IdleAfter \in Nat /\ IdleAfter >= Second
    /\ NoTenant \notin Tenants \cup Addresses \cup Keys
    /\ Addresses \cap Tenants = {} /\ Keys \cap (Addresses \cup Tenants) = {}
    /\ MaxRequests \in [Keys -> Nat] /\ Window \in [Keys -> Nat \ {0}]
    /\ StaleAfter \in Nat /\ CleanupEvery \in Nat /\ MaxTime \in Nat

VARIABLES
    clock,       \* Date.now
    buckets,     \* bucket of each address
    tenants,     \* bucket of each tenant
    admitted,    \* history: when requests of an address, a tenant, a key passed
    windows,     \* timestamps of each key, oldest first
    lastCleanup  \* RateLimiter.lastCleanup

rateVars == <<clock, buckets, tenants, admitted, windows, lastCleanup>>

NoBucket == [tokens |-> -1, lastRefill |-> 0]
Subjects == Addresses \cup Tenants \cup Keys

RateInit ==
    /\ clock = 0
    /\ buckets = [a \in Addresses |-> NoBucket]
    /\ tenants = [t \in Tenants |-> NoBucket]
    /\ admitted = [s \in Subjects |-> << >>]
    /\ windows = [k \in Keys |-> << >>]
    /\ lastCleanup = 0

Tick ==
    /\ clock < MaxTime
    /\ clock' = clock + 1
    /\ UNCHANGED <<buckets, tenants, admitted, windows, lastCleanup>>
-----------------------------------------------------------------------------
(* Token buckets *)

\* A new bucket is full; an old one has been refilled since it was last used.
Refilled_Unbounded(bucket, rate) ==
    [tokens |-> IF bucket = NoBucket THEN rate * Second
                ELSE bucket.tokens + (clock - bucket.lastRefill) * rate,
     lastRefill |-> clock]

Refilled(bucket, rate) ==
    LET full == rate * Second
        sum  == bucket.tokens + (clock - bucket.lastRefill) * rate
    IN  [tokens |-> IF bucket = NoBucket \/ sum > full THEN full ELSE sum, lastRefill |-> clock]

Passes(bucket) == bucket.tokens >= Second
Spent(bucket)  == [bucket EXCEPT !.tokens = @ - Second]

\* checkRateLimit: the tenant's bucket first; it pays even if the address is
\* then refused.  A rate of 0 limits nothing.
checkRateLimit(ip, tenant) ==
    LET byTenant == TenantRate > 0 /\ tenant # NoTenant
        tb == IF byTenant THEN Refilled(tenants[tenant], TenantRate) ELSE NoBucket
        ib == Refilled(buckets[ip], IpRate)
        tenantPasses == byTenant => Passes(tb)
        ipPasses     == IpRate > 0 => Passes(ib) IN
    /\ tenants' = IF byTenant THEN [tenants EXCEPT ![tenant] = IF tenantPasses THEN Spent(tb) ELSE tb]
                  ELSE tenants
    /\ buckets' = IF tenantPasses /\ IpRate > 0
                  THEN [buckets EXCEPT ![ip] = IF ipPasses THEN Spent(ib) ELSE ib] ELSE buckets
    /\ admitted' = IF tenantPasses /\ ipPasses
                   THEN [s \in Subjects |-> IF s \in {ip, tenant} THEN Append(admitted[s], clock)
                                            ELSE admitted[s]]
                   ELSE admitted
    /\ UNCHANGED <<clock, windows, lastCleanup>>

\* The cleanup timer: addresses that were idle.  It looks for tenants under
\* the keys of addresses and never finds one.
CleanupTimer_Busy ==
    /\ buckets' = [a \in Addresses |->
                     IF clock > buckets[a].lastRefill THEN NoBucket ELSE buckets[a]]
    /\ UNCHANGED <<clock, tenants, admitted, windows, lastCleanup>>

CleanupTimer ==
    /\ buckets' = [a \in Addresses |->
                     IF clock - buckets[a].lastRefill > IdleAfter THEN NoBucket ELSE buckets[a]]
    /\ UNCHANGED <<clock, tenants, admitted, windows, lastCleanup>>
-----------------------------------------------------------------------------
(* RateLimiter *)

\* The timestamps after start.  They were pushed at the clock, so the others
\* come first.
Newer(times, start) ==
    LET old == CHOOSE n \in 0..Len(times) : \A i \in 1..Len(times) : i <= n <=> times[i] <= start
    IN  SubSeq(times, old + 1, Len(times))

StaleKeysCleaned(w) == [k \in Keys |-> Newer(w[k], clock - StaleAfter)]

\* check: prune the key, count, record; every now and then clean all keys.
check(key) ==
    LET recent == Newer(windows[key], clock - Window[key])
        passes == Len(recent) < MaxRequests[key]
        noted  == [windows EXCEPT ![key] = Append(recent, clock)]
        due    == clock - lastCleanup > CleanupEvery IN
    /\ windows' = CASE ~passes -> [windows EXCEPT ![key] = recent]
                    [] passes /\ due -> StaleKeysCleaned(noted)
                    [] OTHER -> noted
    /\ lastCleanup' = IF passes /\ due THEN clock ELSE lastCleanup
    /\ admitted' = IF passes THEN [admitted EXCEPT ![key] = Append(@, clock)] ELSE admitted
    /\ UNCHANGED <<clock, buckets, tenants>>

\* reset, by the host: what passed before does not count any more.
reset(key) ==
    /\ windows[key] # << >>
    /\ windows' = [windows EXCEPT ![key] = << >>]
    /\ admitted' = [admitted EXCEPT ![key] = << >>]
    /\ UNCHANGED <<clock, buckets, tenants, lastCleanup>>

cleanup ==
    /\ windows' = StaleKeysCleaned(windows)
    /\ UNCHANGED <<clock, buckets, tenants, admitted, lastCleanup>>
-----------------------------------------------------------------------------
BucketNext ==
    \/ Tick
    \/ \E ip \in Addresses, t \in Tenants \cup {NoTenant} : checkRateLimit(ip, t)
    \/ CleanupTimer

LimiterNext == Tick \/ cleanup \/ \E k \in Keys : check(k) \/ reset(k)

RateSpec == RateInit /\ [][BucketNext \/ LimiterNext]_rateVars
-----------------------------------------------------------------------------
RateTypeOK ==
    /\ clock \in 0..MaxTime /\ lastCleanup \in 0..clock
    /\ \A a \in Addresses : buckets[a].tokens \in -1..IpRate * Second
    /\ \A t \in Tenants : tenants[t].tokens \in -1..TenantRate * Second
    /\ \A k \in Keys : \A i \in 1..Len(windows[k]) : windows[k][i] \in 0..clock

\* The requests of s that passed from its i-th to its j-th, a token bucket of
\* this rate allowing a burst of one second's worth.
WithinBucket(s, rate) ==
    \A i, j \in 1..Len(admitted[s]) :
        i <= j => (j - i + 1) * Second
                      <= rate * Second + rate * (admitted[s][j] - admitted[s][i])

\* Over any stretch of time an address and a tenant pass no more requests than
\* the burst and the refill of their bucket allow, whatever buckets the timer
\* forgets; and a key passes no more than maxRequests within any window,
\* whatever the cleanups forget, as long as its window is not longer than the
\* hour after which they forget.
AdmittedWithinRate ==
    /\ IpRate > 0 => \A a \in Addresses : WithinBucket(a, IpRate)
    /\ TenantRate > 0 => \A t \in Tenants : WithinBucket(t, TenantRate)
    /\ \A k \in Keys : Window[k] <= StaleAfter =>
          \A i, j \in 1..Len(admitted[k]) :
             i <= j /\ admitted[k][j] - admitted[k][i] < Window[k] => j - i < MaxRequests[k]
=============================================================================
