---------------------------- MODULE ServiceProofs ----------------------------
(***************************************************************************)
(* Proofs about the service: whom the daemon serves, what its shutdown     *)
(* keeps, by how much callers may overrun a quota, and what the rate        *)
(* limiters let pass.                                                      *)
(***************************************************************************)
EXTENDS Service, FiniteSetTheorems, SequenceTheorems, WellFoundedInduction, TLAPS
-----------------------------------------------------------------------------
(* Rate limits *)

\* A set of numbers has a smallest one.
LEMMA Smallest ==
    ASSUME NEW T, T \subseteq Nat, T # {}
    PROVE  \E x \in T : \A y \in T : x <= y
<1> DEFINE R == {ss \in Nat \X Nat : ss[1] < ss[2]}
<1>1. IsWellFoundedOn(R, Nat)
  BY NatLessThanWellFounded DEF OpToRel
<1> HIDE DEF R
<1>2. PICK x \in T : \A y \in T : ~(<<y, x>> \in R)
  BY <1>1, WFMin
<1>3. ASSUME NEW y \in T PROVE x <= y
  <2>1. ~(y < x)
    BY <1>2, <1>3 DEF R
  <2> QED
    BY <2>1
<1> QED
  BY <1>3

\* Times in order, none after now.
InTime(times, now) ==
    /\ times \in Seq(Int)
    /\ \A i \in 1..Len(times) : times[i] \in 0..now
    /\ \A i, j \in 1..Len(times) : i <= j => times[i] <= times[j]

\* w is what is left of times without the first c.
LeftOf(w, times, c) ==
    /\ w \in Seq(Int) /\ c \in 0..Len(times)
    /\ Len(w) = Len(times) - c
    /\ \A i \in 1..Len(w) : w[i] = times[c + i]

\* What is left of a key's requests, and those that are gone left its window.
KeyOK(w, times, now, window) ==
    /\ InTime(times, now)
    /\ \E c \in 0..Len(times) :
          /\ LeftOf(w, times, c)
          /\ window <= StaleAfter => \A i \in 1..c : times[i] <= now - window

KeyRate(times, window, max) ==
    window <= StaleAfter =>
        \A i, j \in 1..Len(times) : i <= j /\ times[j] - times[i] < window => j - i < max

\* The requests since the i-th and the tokens that are left are no more than
\* the burst and the refill since then; without a bucket, than the refill.
BucketOK(b, times, now, rate) ==
    /\ InTime(times, now)
    /\ b = NoBucket => \A i \in 1..Len(times) :
          (Len(times) - i + 1) * Second <= rate * (now - times[i])
    /\ b # NoBucket =>
          /\ b \in [tokens : Nat, lastRefill : 0..now] /\ b.tokens <= rate * Second
          /\ \A i \in 1..Len(times) :
                (Len(times) - i + 1) * Second + b.tokens
                    <= rate * Second + rate * (b.lastRefill - times[i])

Within(times, rate) ==
    \A i, j \in 1..Len(times) :
        i <= j => (j - i + 1) * Second <= rate * Second + rate * (times[j] - times[i])

RateInv ==
    /\ clock \in 0..MaxTime /\ lastCleanup \in 0..clock
    /\ buckets \in [Addresses -> [tokens : Int, lastRefill : Int]]
    /\ tenants \in [Tenants -> [tokens : Int, lastRefill : Int]]
    /\ admitted \in [Subjects -> Seq(Int)] /\ windows \in [Keys -> Seq(Int)]
    /\ \A a \in Addresses : InTime(admitted[a], clock)
    /\ \A t \in Tenants : InTime(admitted[t], clock)
    /\ IpRate = 0 => \A a \in Addresses : buckets[a] = NoBucket
    /\ TenantRate = 0 => \A t \in Tenants : tenants[t] = NoBucket
    /\ IpRate > 0 => \A a \in Addresses :
          BucketOK(buckets[a], admitted[a], clock, IpRate) /\ Within(admitted[a], IpRate)
    /\ TenantRate > 0 => \A t \in Tenants :
          BucketOK(tenants[t], admitted[t], clock, TenantRate) /\ Within(admitted[t], TenantRate)
    /\ \A k \in Keys :
          /\ KeyOK(windows[k], admitted[k], clock, Window[k])
          /\ KeyRate(admitted[k], Window[k], MaxRequests[k])

\* Appending the present keeps the times in order.
LEMMA InTimeAppend ==
    ASSUME NEW times, NEW now \in Nat, InTime(times, now)
    PROVE  /\ InTime(Append(times, now), now)
           /\ Len(Append(times, now)) = Len(times) + 1
           /\ Append(times, now)[Len(times) + 1] = now
           /\ \A i \in 1..Len(times) : Append(times, now)[i] = times[i]
<1> DEFINE n == Len(times)
           s == Append(times, now)
<1>1. /\ times \in Seq(Int) /\ n \in Nat /\ s \in Seq(Int) /\ Len(s) = n + 1
      /\ s[n + 1] = now /\ \A i \in 1..n : s[i] = times[i]
  BY DEF InTime
<1>2. /\ \A i \in 1..n : times[i] \in 0..now
      /\ \A i, j \in 1..n : i <= j => times[i] <= times[j]
  BY DEF InTime
<1> HIDE DEF n, s
<1>3. \A i \in 1..(n + 1) : s[i] \in 0..now
  BY <1>1, <1>2
<1>4. ASSUME NEW i \in 1..(n + 1), NEW j \in 1..(n + 1), i <= j PROVE s[i] <= s[j]
  <2>1. CASE j = n + 1
    BY <1>1, <1>3, <2>1
  <2>2. CASE j \in 1..n
    BY <1>1, <1>2, <1>4, <2>2
  <2> QED
    BY <2>1, <2>2, <1>1
<1> QED
  BY <1>1, <1>3, <1>4 DEF InTime, n, s

\* Later the times are still not after now.
LEMMA InTimeLater ==
    ASSUME NEW times, NEW now \in Nat, NEW later \in Nat, now <= later, InTime(times, now)
    PROVE  InTime(times, later)
BY DEF InTime

\* What is newer than a time is a rest of the times.
LEMMA NewerLeft ==
    ASSUME NEW times, NEW now \in Nat, InTime(times, now), NEW start \in Int
    PROVE  \E c \in Nat :
              /\ LeftOf(Newer(times, start), times, c)
              /\ \A i \in 1..c : times[i] <= start
<1> DEFINE n == Len(times)
           Split(c) == \A i \in 1..n : i <= c <=> times[i] <= start
           old == CHOOSE c \in 0..n : Split(c)
<1>1. /\ times \in Seq(Int) /\ n \in Nat
      /\ \A i \in 1..n : times[i] \in 0..now
      /\ \A i, j \in 1..n : i <= j => times[i] <= times[j]
  BY DEF InTime
<1>2. \E c \in 0..n : Split(c)
  <2> DEFINE T == {i \in 1..n : times[i] > start}
  <2>1. CASE T = {}
    <3>1. \A i \in 1..n : times[i] <= start
      BY <2>1, <1>1
    <3>2. n \in 0..n /\ Split(n)
      BY <3>1, <1>1
    <3> QED
      BY <3>2
  <2>2. CASE T # {}
    <3>1. PICK x \in T : \A y \in T : x <= y
      <4>1. T \subseteq Nat
        BY <1>1
      <4> HIDE DEF T
      <4> QED
        BY <4>1, <2>2, Smallest
    <3>2. x \in 1..n /\ times[x] > start /\ x - 1 \in 0..n
      BY <3>1, <1>1
    <3>3. ASSUME NEW i \in 1..n PROVE i <= x - 1 <=> times[i] <= start
      <4>1. CASE i <= x - 1
        <5>1. i \notin T
          BY <4>1, <3>1, <3>2
        <5> QED
          BY <5>1, <4>1, <1>1
      <4>2. CASE ~(i <= x - 1)
        <5>1. times[x] <= times[i]
          BY <4>2, <3>2, <1>1
        <5> QED
          BY <5>1, <4>2, <3>2, <1>1
      <4> QED
        BY <4>1, <4>2
    <3> QED
      BY <3>2, <3>3
  <2> QED
    BY <2>1, <2>2
<1>3. old \in 0..n /\ Split(old)
  <2> HIDE DEF Split
  <2> QED
    BY <1>2
<1>4. Newer(times, start) = SubSeq(times, old + 1, n)
  BY DEF Newer
<1> HIDE DEF n, old
<1>5. /\ SubSeq(times, old + 1, n) \in Seq(Int)
      /\ Len(SubSeq(times, old + 1, n)) = n - old
      /\ \A i \in 1..(n - old) : SubSeq(times, old + 1, n)[i] = times[old + i]
  <2>1. old \in Nat /\ old <= n /\ n = Len(times)
    BY <1>3, <1>1 DEF n
  <2> QED
    BY <2>1, <1>1, SubSeqProperties
<1>6. LeftOf(Newer(times, start), times, old)
  BY <1>3, <1>4, <1>5, <1>1 DEF LeftOf, n
<1>7. old \in Nat /\ \A i \in 1..old : times[i] <= start
  BY <1>3, <1>1
<1> QED
  BY <1>6, <1>7

\* A rest of a rest is a rest.
LEMMA LeftTwice ==
    ASSUME NEW u, NEW w, NEW times, times \in Seq(Int), NEW c \in Nat, NEW d \in Nat,
           LeftOf(w, times, c), LeftOf(u, w, d), NEW e \in Nat, e = c + d
    PROVE  LeftOf(u, times, e)
<1>1. /\ Len(times) \in Nat /\ Len(w) = Len(times) - c /\ c <= Len(times)
      /\ Len(u) = Len(w) - d /\ d <= Len(w) /\ u \in Seq(Int)
  BY DEF LeftOf
<1>2. ASSUME NEW i \in 1..Len(u) PROVE u[i] = times[e + i]
  <2>1. u[i] = w[d + i]
    BY DEF LeftOf
  <2>2. d + i \in 1..Len(w)
    BY <1>1
  <2>3. w[d + i] = times[c + (d + i)]
    BY <2>2 DEF LeftOf
  <2>4. c + (d + i) = e + i
    OBVIOUS
  <2> QED
    BY <2>1, <2>3, <2>4
<1>3. e \in 0..Len(times) /\ Len(u) = Len(times) - e
  BY <1>1
<1> QED
  BY <1>1, <1>2, <1>3 DEF LeftOf

\* A rest of times in order is in order.
LEMMA LeftInTime ==
    ASSUME NEW w, NEW times, NEW now \in Nat, InTime(times, now), NEW c \in Nat, LeftOf(w, times, c)
    PROVE  InTime(w, now)
<1>1. /\ times \in Seq(Int) /\ Len(times) \in Nat /\ Len(w) = Len(times) - c /\ w \in Seq(Int)
      /\ \A i \in 1..Len(w) : w[i] = times[c + i] /\ c + i \in 1..Len(times)
  BY DEF LeftOf, InTime
<1>2. /\ \A i \in 1..Len(times) : times[i] \in 0..now
      /\ \A i, j \in 1..Len(times) : i <= j => times[i] <= times[j]
  BY DEF InTime
<1>3. \A i \in 1..Len(w) : w[i] \in 0..now
  BY <1>1, <1>2
<1>4. ASSUME NEW i \in 1..Len(w), NEW j \in 1..Len(w), i <= j PROVE w[i] <= w[j]
  <2>1. times[c + i] <= times[c + j]
    BY <1>1, <1>2, <1>4
  <2> QED
    BY <2>1, <1>1
<1> QED
  BY <1>1, <1>3, <1>4 DEF InTime

\* The present request of a key comes into what is left, and what is gone has
\* left the window.
LEMMA KeyStep ==
    ASSUME NEW w, NEW times, NEW now \in Nat, NEW window \in Nat \ {0}, NEW max \in Nat,
           StaleAfter \in Nat,
           KeyOK(w, times, now, window), KeyRate(times, window, max),
           NEW r, r = Newer(w, now - window)
    PROVE  /\ KeyOK(r, times, now, window)
           /\ Len(r) < max =>
                 /\ KeyOK(Append(r, now), Append(times, now), now, window)
                 /\ KeyRate(Append(times, now), window, max)
<1>1. /\ InTime(times, now) /\ times \in Seq(Int) /\ Len(times) \in Nat
      /\ \A i \in 1..Len(times) : times[i] \in 0..now
  BY DEF KeyOK, InTime
<1>2. PICK c \in Nat :
         /\ LeftOf(w, times, c)
         /\ window <= StaleAfter => \A i \in 1..c : times[i] <= now - window
  BY DEF KeyOK
<1>3. InTime(w, now)
  BY <1>1, <1>2, LeftInTime
<1>4. PICK d \in Nat : LeftOf(r, w, d) /\ \A i \in 1..d : w[i] <= now - window
  BY <1>3, NewerLeft
<1>5. PICK e \in Nat : e = c + d
  OBVIOUS
<1>6. LeftOf(r, times, e)
  BY <1>1, <1>2, <1>4, <1>5, LeftTwice
<1>7. /\ e <= Len(times) /\ Len(r) = Len(times) - e /\ r \in Seq(Int)
      /\ \A i \in 1..Len(r) : r[i] = times[e + i]
      /\ Len(w) = Len(times) - c /\ d <= Len(w)
      /\ \A i \in 1..Len(w) : w[i] = times[c + i]
  <2>1. /\ e <= Len(times) /\ Len(r) = Len(times) - e /\ r \in Seq(Int)
        /\ \A i \in 1..Len(r) : r[i] = times[e + i]
    BY <1>1, <1>6 DEF LeftOf
  <2>2. /\ Len(w) = Len(times) - c /\ Len(w) \in Nat
        /\ \A i \in 1..Len(w) : w[i] = times[c + i]
    BY <1>1, <1>2 DEF LeftOf
  <2>3. d <= Len(w)
    BY <2>2, <1>4 DEF LeftOf
  <2> QED
    BY <2>1, <2>2, <2>3
<1>8. Len(times) = Len(r) + e /\ Len(r) \in Nat
  BY <1>1, <1>7
<1>9. window <= StaleAfter => \A i \in 1..e : times[i] <= now - window
  <2> SUFFICES ASSUME window <= StaleAfter, NEW i \in 1..e
               PROVE  times[i] <= now - window
    OBVIOUS
  <2>1. CASE i <= c
    BY <2>1, <1>2
  <2>2. CASE i > c
    <3>1. i - c \in 1..d /\ i - c \in 1..Len(w) /\ c + (i - c) = i
      BY <2>2, <1>5, <1>7, <1>1
    <3>2. w[i - c] = times[i] /\ w[i - c] <= now - window
      BY <3>1, <1>4, <1>7
    <3> QED
      BY <3>2
  <2> QED
    BY <2>1, <2>2
<1>10. KeyOK(r, times, now, window)
  <2>1. e \in 0..Len(times)
    BY <1>6 DEF LeftOf
  <2> QED
    BY <2>1, <1>1, <1>6, <1>9 DEF KeyOK
<1>11. ASSUME Len(r) < max
      PROVE  /\ KeyOK(Append(r, now), Append(times, now), now, window)
             /\ KeyRate(Append(times, now), window, max)
  <2> DEFINE s == Append(times, now)
             n == Len(times)
  <2>1. /\ InTime(s, now) /\ Len(s) = n + 1 /\ s[n + 1] = now
        /\ \A i \in 1..n : s[i] = times[i]
    BY <1>1, InTimeAppend
  <2>2. LeftOf(Append(r, now), s, e)
    <3> DEFINE q == Append(r, now)
    <3>1. /\ q \in Seq(Int) /\ Len(q) = Len(r) + 1 /\ q[Len(r) + 1] = now
          /\ \A i \in 1..Len(r) : q[i] = r[i]
      BY <1>7
    <3> HIDE DEF q, s
    <3>2. ASSUME NEW i \in 1..Len(q) PROVE q[i] = s[e + i]
      <4>1. CASE i = Len(r) + 1
        <5>1. e + i = n + 1
          BY <4>1, <1>8
        <5> QED
          BY <5>1, <4>1, <3>1, <2>1
      <4>2. CASE i \in 1..Len(r)
        <5>1. e + i \in 1..n
          BY <4>2, <1>7, <1>1
        <5> QED
          BY <5>1, <4>2, <3>1, <2>1, <1>7
      <4> QED
        BY <4>1, <4>2, <3>1, <1>7
    <3>3. q \in Seq(Int) /\ e \in 0..Len(s) /\ Len(q) = Len(s) - e
      BY <3>1, <2>1, <1>7, <1>5, <1>1
    <3>4. LeftOf(q, s, e)
      BY <3>2, <3>3 DEF LeftOf
    <3> QED
      BY <3>4 DEF q
  <2>3. window <= StaleAfter => \A i \in 1..e : s[i] <= now - window
    BY <2>1, <1>9, <1>7
  <2>4. KeyOK(Append(r, now), s, now, window)
    <3>1. e \in 0..Len(s)
      BY <2>2 DEF LeftOf
    <3> QED
      BY <3>1, <2>1, <2>2, <2>3 DEF KeyOK
  <2>5. KeyRate(s, window, max)
    <3> HIDE DEF s
    <3> SUFFICES ASSUME window <= StaleAfter, NEW i \in 1..(n + 1), NEW j \in 1..(n + 1),
                        i <= j, s[j] - s[i] < window
                 PROVE  j - i < max
      BY <2>1 DEF KeyRate
    <3>1. CASE j \in 1..n
      <4>1. i \in 1..n
        BY <3>1
      <4>2. times[j] - times[i] < window
        BY <4>1, <3>1, <2>1
      <4> QED
        BY <4>1, <4>2, <3>1 DEF KeyRate
    <3>2. CASE j = n + 1
      <4>1. CASE i \in 1..n
        <5>1. s[i] = times[i] /\ s[j] = now /\ times[i] \in 0..now
          BY <4>1, <3>2, <2>1, <1>1
        <5>2. ~(times[i] <= now - window)
          BY <5>1
        <5>3. i > e
          BY <5>2, <1>9
        <5> QED
          BY <5>3, <3>2, <1>7, <1>11, <1>1
      <4>2. CASE i = n + 1
        <5>1. Len(r) \in Nat /\ j - i = 0
          BY <4>2, <3>2, <1>7, <1>1
        <5> QED
          BY <5>1, <1>11
      <4> QED
        BY <4>1, <4>2, <1>1
    <3> QED
      BY <3>1, <3>2, <1>1
  <2> QED
    BY <2>4, <2>5
<1> QED
  BY <1>10, <1>11

\* A cleanup forgets what is older than any window it is safe for.
LEMMA KeyCleaned ==
    ASSUME NEW w, NEW times, NEW now \in Nat, NEW window \in Nat, StaleAfter \in Nat,
           KeyOK(w, times, now, window)
    PROVE  KeyOK(Newer(w, now - StaleAfter), times, now, window)
<1>1. InTime(times, now) /\ times \in Seq(Int) /\ Len(times) \in Nat
  BY DEF KeyOK, InTime
<1>2. PICK c \in Nat :
         /\ LeftOf(w, times, c)
         /\ window <= StaleAfter => \A i \in 1..c : times[i] <= now - window
  BY DEF KeyOK
<1>3. InTime(w, now)
  BY <1>1, <1>2, LeftInTime
<1> DEFINE r == Newer(w, now - StaleAfter)
<1>4. PICK d \in Nat : LeftOf(r, w, d) /\ \A i \in 1..d : w[i] <= now - StaleAfter
  <2>1. now - StaleAfter \in Int
    OBVIOUS
  <2> QED
    BY <2>1, <1>3, NewerLeft
<1> HIDE DEF r
<1>5. PICK e \in Nat : e = c + d
  OBVIOUS
<1>6. LeftOf(r, times, e)
  BY <1>1, <1>2, <1>4, <1>5, LeftTwice
<1>7. /\ Len(w) = Len(times) - c /\ d <= Len(w)
      /\ \A i \in 1..Len(w) : w[i] = times[c + i]
      /\ \A i \in 1..Len(w) : w[i] \in Int
  BY <1>1, <1>2, <1>3, <1>4 DEF LeftOf, InTime
<1>8. window <= StaleAfter => \A i \in 1..e : times[i] <= now - window
  <2> SUFFICES ASSUME window <= StaleAfter, NEW i \in 1..e
               PROVE  times[i] <= now - window
    OBVIOUS
  <2>1. CASE i <= c
    BY <2>1, <1>2
  <2>2. CASE i > c
    <3>1. i - c \in 1..d /\ i - c \in 1..Len(w) /\ c + (i - c) = i
      BY <2>2, <1>5, <1>7, <1>1
    <3>2. w[i - c] = times[i] /\ w[i - c] <= now - StaleAfter /\ w[i - c] \in Int
      BY <3>1, <1>4, <1>7
    <3> QED
      BY <3>2
  <2> QED
    BY <2>1, <2>2
<1>9. KeyOK(r, times, now, window)
  <2>1. e \in 0..Len(times)
    BY <1>6 DEF LeftOf
  <2> QED
    BY <2>1, <1>1, <1>6, <1>8 DEF KeyOK
<1> QED
  BY <1>9 DEF r

\* As time passes more has left the window.
LEMMA KeyLater ==
    ASSUME NEW w, NEW times, NEW now \in Nat, NEW window \in Nat,
           KeyOK(w, times, now, window)
    PROVE  KeyOK(w, times, now + 1, window)
<1>1. InTime(times, now) /\ times \in Seq(Int) /\ \A i \in 1..Len(times) : times[i] \in Int
  BY DEF KeyOK, InTime
<1>2. PICK c \in Nat :
         /\ LeftOf(w, times, c)
         /\ window <= StaleAfter => \A i \in 1..c : times[i] <= now - window
  BY DEF KeyOK
<1>3. window <= StaleAfter => \A i \in 1..c : times[i] <= now + 1 - window
  BY <1>2, <1>1 DEF LeftOf
<1>4. InTime(times, now + 1)
  BY <1>1, InTimeLater
<1> QED
  BY <1>2, <1>3, <1>4 DEF KeyOK

\* Products distribute over sums.
LEMMA Distributes ==
    ASSUME NEW a \in Int, NEW b \in Int, NEW c \in Int
    PROVE  /\ a * (b + c) = a * b + a * c /\ a * (b - c) = a * b - a * c
           /\ (b + c) * a = a * b + a * c /\ (b - c) * a = a * b - a * c
           /\ a * b \in Int /\ b * a = a * b
OBVIOUS

\* Products are monotone.
LEMMA Monotone ==
    ASSUME NEW a \in Nat, NEW b \in Int, NEW c \in Int, b <= c
    PROVE  a * b <= a * c
<1>1. c - b \in Nat
  OBVIOUS
<1>2. a * (c - b) \in Nat
  BY <1>1
<1>3. a * (c - b) = a * c - a * b /\ a * b \in Int /\ a * c \in Int
  BY Distributes
<1> QED
  BY <1>2, <1>3

\* A refilled bucket is a bucket of the present, at most full.
LEMMA RefilledOK ==
    ASSUME NEW b \in [tokens : Int, lastRefill : Int], NEW times, NEW rate \in Nat, clock \in Nat,
           Second \in Nat \ {0}, BucketOK(b, times, clock, rate)
    PROVE  /\ BucketOK(Refilled(b, rate), times, clock, rate)
           /\ Refilled(b, rate) # NoBucket /\ Refilled(b, rate).lastRefill = clock
           /\ Refilled(b, rate) \in [tokens : Nat, lastRefill : Nat]
<1> DEFINE full == rate * Second
           sum  == b.tokens + (clock - b.lastRefill) * rate
           r == Refilled(b, rate)
<1>1. /\ full \in Nat /\ sum \in Int
      /\ r = [tokens |-> IF b = NoBucket \/ sum > full THEN full ELSE sum, lastRefill |-> clock]
  <2>1. full \in Nat
    OBVIOUS
  <2>2. sum \in Int
    OBVIOUS
  <2> QED
    BY <2>1, <2>2 DEF Refilled
<1>2. /\ InTime(times, clock) /\ Len(times) \in Nat
      /\ \A i \in 1..Len(times) : times[i] \in 0..clock
  BY DEF BucketOK, InTime
<1>3. b # NoBucket => /\ b.tokens \in Nat /\ b.lastRefill \in 0..clock
                      /\ (clock - b.lastRefill) * rate \in Nat
  <2> SUFFICES ASSUME b # NoBucket
               PROVE  /\ b.tokens \in Nat /\ b.lastRefill \in 0..clock
                      /\ (clock - b.lastRefill) * rate \in Nat
    OBVIOUS
  <2>1. b.tokens \in Nat /\ b.lastRefill \in 0..clock
    BY DEF BucketOK
  <2>2. clock - b.lastRefill \in Nat
    BY <2>1
  <2> QED
    BY <2>1, <2>2
<1>4. b # NoBucket => sum \in Nat
  BY <1>3
<1>5. r.tokens = (IF b = NoBucket \/ sum > full THEN full ELSE sum) /\ r.lastRefill = clock
  BY <1>1
<1>6. r.tokens \in Nat /\ r.tokens <= full /\ (b # NoBucket => r.tokens <= sum)
      /\ (b = NoBucket => r.tokens = full)
  <2> HIDE DEF sum, full
  <2> QED
    BY <1>1, <1>4, <1>5
<1>7. r \in [tokens : Nat, lastRefill : 0..clock]
  <2> HIDE DEF sum, full
  <2> QED
    BY <1>1, <1>4
<1>8. r # NoBucket
  <2>1. NoBucket.tokens = -1
    BY DEF NoBucket
  <2> QED
    BY <2>1, <1>6
<1>9. ASSUME NEW i \in 1..Len(times)
      PROVE  (Len(times) - i + 1) * Second + r.tokens <= rate * Second + rate * (r.lastRefill - times[i])
  <2>1. PICK m \in Int : m = (Len(times) - i + 1) * Second
    BY <1>2
  <2>2. PICK g \in Int : g = rate * (clock - times[i])
    BY <1>2
  <2>3. CASE b = NoBucket
    <3>1. m <= g
      BY <2>1, <2>2, <2>3 DEF BucketOK
    <3>2. r.tokens = full
      BY <2>3, <1>6
    <3>3. m + full <= full + g
      BY <3>1, <1>1
    <3> QED
      BY <3>2, <3>3, <2>1, <2>2, <1>5
  <2>4. CASE b # NoBucket
    <3>1. PICK h \in Int : h = rate * (b.lastRefill - times[i])
      BY <1>2
    <3>2. m + b.tokens <= full + h
      BY <2>1, <2>4, <3>1 DEF BucketOK
    <3>3. PICK k \in Int : k = (clock - b.lastRefill) * rate
      OBVIOUS
    <3>4. h + k = g
      <4>1. PICK x \in Int : x = b.lastRefill - times[i]
        BY <1>2
      <4>2. PICK y \in Int : y = clock - b.lastRefill
        OBVIOUS
      <4>3. clock - times[i] = x + y
        BY <4>1, <4>2, <1>2
      <4>4. rate * (x + y) = rate * x + rate * y /\ y * rate = rate * y
        BY Distributes
      <4> QED
        BY <4>1, <4>2, <4>3, <4>4, <3>1, <3>3, <2>2
    <3>5. r.tokens <= b.tokens + k /\ r.tokens \in Nat
      BY <1>6, <2>4, <3>3
    <3>6. PICK f \in Int : f = full
      BY <1>1
    <3>7. m + b.tokens <= f + h
      BY <3>2, <3>6
    <3>8. m + r.tokens <= f + g
      <4> HIDE DEF full, sum, r
      <4> QED
        BY <3>4, <3>5, <3>7
    <3> QED
      BY <3>6, <3>8, <2>1, <2>2, <1>5
  <2> QED
    BY <2>3, <2>4
<1>10. BucketOK(r, times, clock, rate)
  <2> HIDE DEF r
  <2> QED
    BY <1>2, <1>6, <1>7, <1>8, <1>9 DEF BucketOK
<1> QED
  BY <1>5, <1>7, <1>8, <1>10

\* A bucket that has been refilled and holds a token pays for one more request.
LEMMA SpentOK ==
    ASSUME NEW b \in [tokens : Nat, lastRefill : Nat], NEW times, NEW rate \in Nat, clock \in Nat,
           Second \in Nat \ {0}, BucketOK(b, times, clock, rate), Within(times, rate),
           b # NoBucket, b.lastRefill = clock, Passes(b)
    PROVE  /\ BucketOK(Spent(b), Append(times, clock), clock, rate)
           /\ Within(Append(times, clock), rate)
           /\ Spent(b) \in [tokens : Nat, lastRefill : Nat]
<1> DEFINE s == Append(times, clock)
           n == Len(times)
           p == Spent(b)
<1>1. /\ InTime(times, clock) /\ n \in Nat /\ \A i \in 1..n : times[i] \in 0..clock
      /\ b.tokens <= rate * Second
      /\ \A i \in 1..n : (n - i + 1) * Second + b.tokens <= rate * Second + rate * (clock - times[i])
  BY DEF BucketOK, InTime
<1>2. /\ p \in [tokens : Nat, lastRefill : Nat]
      /\ p.tokens = b.tokens - Second /\ p.tokens \in Nat /\ p.lastRefill = clock
  <2>1. b.tokens >= Second
    BY DEF Passes
  <2> QED
    BY <2>1 DEF Spent
<1>3. /\ InTime(s, clock) /\ Len(s) = n + 1 /\ s[n + 1] = clock
      /\ \A i \in 1..n : s[i] = times[i]
  BY <1>1, InTimeAppend
<1>4. PICK full \in Nat : full = rate * Second
  OBVIOUS
<1>5. p # NoBucket
  <2>1. NoBucket.tokens = -1
    BY DEF NoBucket
  <2> QED
    BY <2>1, <1>2
<1> HIDE DEF s, p, n
<1>6. ASSUME NEW i \in 1..(n + 1)
      PROVE  /\ (n + 1 - i + 1) * Second + p.tokens <= full + rate * (clock - s[i])
             /\ (n + 1 - i + 1) * Second <= full + rate * (s[n + 1] - s[i])
  <2>1. PICK m \in Int : m = (n + 1 - i + 1) * Second
    BY <1>1
  <2>2. PICK g \in Int : g = rate * (clock - s[i])
    <3>1. s[i] \in Int
      BY <1>3 DEF InTime
    <3> QED
      BY <3>1
  <2>3. CASE i = n + 1
    <3>1. n + 1 - i + 1 = 1 /\ m = Second
      BY <2>1, <2>3, <1>1
    <3>2. clock - s[i] = 0 /\ g = 0
      BY <2>2, <2>3, <1>3
    <3>3. m + p.tokens <= full + g /\ p.tokens \in Nat
      BY <3>1, <3>2, <1>1, <1>2, <1>4
    <3> QED
      BY <3>3, <2>1, <2>2, <1>3
  <2>4. CASE i \in 1..n
    <3>1. PICK q \in Int : q = n - i + 1
      BY <1>1
    <3>2. (q + 1) * Second = Second * q + Second * 1 /\ q * Second = Second * q /\ n + 1 - i + 1 = q + 1
      BY <3>1, <1>1, Distributes
    <3>3. PICK l \in Int : l = q * Second
      OBVIOUS
    <3>4. m = l + Second
      BY <3>1, <3>2, <3>3, <2>1
    <3>5. l + b.tokens <= full + g
      BY <3>1, <3>3, <2>2, <2>4, <1>1, <1>3, <1>4
    <3>6. m + p.tokens <= full + g /\ p.tokens \in Nat
      BY <3>4, <3>5, <1>2
    <3> QED
      BY <3>6, <2>1, <2>2, <1>3
  <2> QED
    BY <2>3, <2>4, <1>1
<1>7. BucketOK(p, s, clock, rate)
  <2>1. p \in [tokens : Nat, lastRefill : 0..clock] /\ p.tokens <= rate * Second
    BY <1>1, <1>2, <1>4
  <2>2. ASSUME NEW i \in 1..Len(s)
        PROVE  (Len(s) - i + 1) * Second + p.tokens <= rate * Second + rate * (p.lastRefill - s[i])
    <3>1. i \in 1..(n + 1)
      BY <1>3
    <3>2. (n + 1 - i + 1) * Second + p.tokens <= full + rate * (clock - s[i])
      BY <3>1, <1>6
    <3>3. PICK x \in Int : x = n + 1 - i + 1
      BY <1>1
    <3>4. PICK y \in Int : y = clock - s[i]
      BY <3>1, <1>3 DEF InTime
    <3>5. x * Second + p.tokens <= full + rate * y
      BY <3>2, <3>3, <3>4
    <3>6. Len(s) - i + 1 = x /\ p.lastRefill - s[i] = y
      BY <3>1, <3>3, <3>4, <1>1, <1>2, <1>3
    <3> QED
      BY <3>5, <3>6, <1>4
  <2> QED
    BY <2>1, <2>2, <1>3, <1>5 DEF BucketOK
<1>8. Within(s, rate)
  <2> SUFFICES ASSUME NEW i \in 1..(n + 1), NEW j \in 1..(n + 1), i <= j
               PROVE  (j - i + 1) * Second <= rate * Second + rate * (s[j] - s[i])
    BY <1>3 DEF Within
  <2>1. CASE j = n + 1
    <3>1. (n + 1 - i + 1) * Second <= full + rate * (s[n + 1] - s[i])
      BY <1>6
    <3>2. PICK x \in Int : x = n + 1 - i + 1
      BY <1>1
    <3>3. PICK y \in Int : y = s[n + 1] - s[i]
      BY <1>1, <1>3 DEF InTime
    <3>4. x * Second <= full + rate * y
      BY <3>1, <3>2, <3>3
    <3>5. j - i + 1 = x /\ s[j] - s[i] = y
      BY <2>1, <3>2, <3>3, <1>1
    <3> QED
      BY <3>4, <3>5, <1>4
  <2>2. CASE j \in 1..n
    <3>1. i \in 1..n
      BY <2>2, <1>1
    <3>2. s[i] = times[i] /\ s[j] = times[j]
      BY <3>1, <2>2, <1>3
    <3>3. (j - i + 1) * Second <= rate * Second + rate * (times[j] - times[i])
      BY <3>1, <2>2 DEF Within, n
    <3> QED
      BY <3>2, <3>3
  <2> QED
    BY <2>1, <2>2, <1>1
<1> QED
  BY <1>2, <1>7, <1>8 DEF p, s

\* A bucket that is forgotten when it has been idle for a second or more would
\* be full.
LEMMA ForgottenOK ==
    ASSUME NEW b \in [tokens : Int, lastRefill : Int], NEW times, NEW rate \in Nat, clock \in Nat,
           Second \in Nat \ {0}, IdleAfter \in Nat, IdleAfter >= Second,
           BucketOK(b, times, clock, rate), clock - b.lastRefill > IdleAfter
    PROVE  BucketOK(NoBucket, times, clock, rate)
<1>1. CASE b = NoBucket
  BY <1>1
<1>2. CASE b # NoBucket
  <2>1. /\ InTime(times, clock) /\ Len(times) \in Nat
        /\ \A i \in 1..Len(times) : times[i] \in 0..clock
        /\ b.tokens \in Nat /\ b.lastRefill \in 0..clock
    BY <1>2 DEF BucketOK, InTime
  <2>2. ASSUME NEW i \in 1..Len(times)
        PROVE  (Len(times) - i + 1) * Second <= rate * (clock - times[i])
    <3>1. PICK m \in Int : m = (Len(times) - i + 1) * Second
      BY <2>1
    <3>2. PICK x \in Int : x = b.lastRefill - times[i]
      BY <2>1
    <3>3. m + b.tokens <= rate * Second + rate * x
      BY <1>2, <3>1, <3>2 DEF BucketOK
    <3>4. PICK y \in Int : y = clock - b.lastRefill
      BY <2>1
    <3>5. rate * Second <= rate * y
      <4>1. Second <= y
        BY <3>4
      <4> QED
        BY <4>1, Monotone
    <3>6. rate * (x + y) = rate * x + rate * y
      BY Distributes
    <3>7. clock - times[i] = x + y
      BY <3>2, <3>4, <2>1
    <3>8. PICK u \in Int, v \in Int, w \in Int : u = rate * x /\ v = rate * y /\ w = rate * Second
      OBVIOUS
    <3>9. m + b.tokens <= w + u /\ w <= v
      BY <3>3, <3>5, <3>8
    <3>10. m <= u + v
      BY <3>9, <2>1
    <3> QED
      BY <3>1, <3>6, <3>7, <3>8, <3>10
  <2> QED
    BY <2>1, <2>2 DEF BucketOK
<1> QED
  BY <1>1, <1>2

\* As time passes a bucket is owed more.
LEMMA BucketLater ==
    ASSUME NEW b, NEW times, NEW rate \in Nat, NEW now \in Nat, BucketOK(b, times, now, rate),
           Second \in Nat
    PROVE  BucketOK(b, times, now + 1, rate)
<1>1. /\ InTime(times, now + 1) /\ Len(times) \in Nat /\ \A i \in 1..Len(times) : times[i] \in 0..now
  BY InTimeLater DEF BucketOK, InTime
<1>2. CASE b = NoBucket
  <2>1. ASSUME NEW i \in 1..Len(times)
        PROVE  (Len(times) - i + 1) * Second <= rate * (now + 1 - times[i])
    <3>1. PICK m \in Int : m = (Len(times) - i + 1) * Second
      BY <1>1
    <3>2. m <= rate * (now - times[i])
      BY <3>1, <1>2 DEF BucketOK
    <3>3. PICK x \in Int, y \in Int : x = now - times[i] /\ y = now + 1 - times[i]
      BY <1>1
    <3>4. rate * x <= rate * y
      <4>1. x <= y
        BY <3>3, <1>1
      <4> QED
        BY <4>1, Monotone
    <3> QED
      BY <3>1, <3>2, <3>3, <3>4
  <2> QED
    BY <2>1, <1>1, <1>2 DEF BucketOK
<1>3. CASE b # NoBucket
  <2>1. b \in [tokens : Nat, lastRefill : 0..now]
    BY <1>3 DEF BucketOK
  <2>2. b \in [tokens : Nat, lastRefill : 0..(now + 1)]
    BY <2>1
  <2> QED
    BY <2>2, <1>1, <1>3 DEF BucketOK
<1> QED
  BY <1>2, <1>3

\* The limiters begin with nothing admitted.
LEMMA RateInitOK == RateInit => RateInv
<1> SUFFICES ASSUME RateInit PROVE RateInv
  OBVIOUS
<1> USE RateAssumption DEF RateInit
<1>1. << >> \in Seq(Int) /\ Len(<< >>) = 0
  BY EmptySeq
<1>2. NoBucket \in [tokens : Int, lastRefill : Int]
  BY DEF NoBucket
<1>3. InTime(<< >>, 0)
  BY <1>1 DEF InTime
<1>4. \A rate \in Nat : BucketOK(NoBucket, << >>, 0, rate) /\ Within(<< >>, rate)
  BY <1>1, <1>3 DEF BucketOK, Within
<1>5. LeftOf(<< >>, << >>, 0)
  BY <1>1 DEF LeftOf
<1>6. \A w \in Nat, m \in Nat : KeyOK(<< >>, << >>, 0, w) /\ KeyRate(<< >>, w, m)
  BY <1>1, <1>3, <1>5 DEF KeyOK, KeyRate
<1>7. \A k \in Keys : windows[k] = << >> /\ admitted[k] = << >> /\ Window[k] \in Nat /\ MaxRequests[k] \in Nat
  BY DEF Subjects
<1>8. /\ \A a \in Addresses : admitted[a] = << >> /\ buckets[a] = NoBucket
      /\ \A t \in Tenants : admitted[t] = << >> /\ tenants[t] = NoBucket
  BY DEF Subjects
<1>9. /\ buckets \in [Addresses -> [tokens : Int, lastRefill : Int]]
      /\ tenants \in [Tenants -> [tokens : Int, lastRefill : Int]]
      /\ admitted \in [Subjects -> Seq(Int)] /\ windows \in [Keys -> Seq(Int)]
  BY <1>1, <1>2
<1> QED
  BY <1>3, <1>4, <1>6, <1>7, <1>8, <1>9 DEF RateInv

\* The types of the constants and the state.
LEMMA RateTypes ==
    ASSUME RateInv
    PROVE  /\ Second \in Nat \ {0} /\ Second \in Nat /\ IpRate \in Nat /\ TenantRate \in Nat
           /\ IdleAfter \in Nat /\ IdleAfter >= Second /\ StaleAfter \in Nat
           /\ \A k \in Keys : Window[k] \in Nat \ {0} /\ Window[k] \in Nat /\ MaxRequests[k] \in Nat
           /\ clock \in Nat /\ clock <= MaxTime /\ MaxTime \in Nat
           /\ lastCleanup \in 0..clock
           /\ buckets \in [Addresses -> [tokens : Int, lastRefill : Int]]
           /\ tenants \in [Tenants -> [tokens : Int, lastRefill : Int]]
           /\ admitted \in [Subjects -> Seq(Int)] /\ windows \in [Keys -> Seq(Int)]
           /\ \A a \in Addresses : a \in Subjects /\ a \notin Tenants /\ a \notin Keys /\ a # NoTenant
           /\ \A t \in Tenants : t \in Subjects /\ t \notin Addresses /\ t \notin Keys
           /\ \A k \in Keys : k \in Subjects /\ k # NoTenant
BY RateAssumption DEF RateInv, Subjects

\* Tick keeps the invariant.
LEMMA TickOK == RateInv /\ Tick => RateInv'
<1> SUFFICES ASSUME RateInv, Tick PROVE RateInv'
  OBVIOUS
<1>1. clock' = clock + 1 /\ clock' \in 0..MaxTime /\ lastCleanup' \in 0..clock'
  BY RateTypes DEF Tick
<1>2. UNCHANGED <<buckets, tenants, admitted, windows, lastCleanup>>
  BY DEF Tick
<1>3. /\ \A a \in Addresses : InTime(admitted[a], clock + 1)
      /\ \A t \in Tenants : InTime(admitted[t], clock + 1)
  <2>1. clock + 1 \in Nat /\ clock <= clock + 1
    BY RateTypes
  <2> QED
    BY <2>1, RateTypes, InTimeLater DEF RateInv
<1>4. IpRate > 0 => \A a \in Addresses :
         BucketOK(buckets[a], admitted[a], clock + 1, IpRate) /\ Within(admitted[a], IpRate)
  BY RateTypes, BucketLater DEF RateInv
<1>5. TenantRate > 0 => \A t \in Tenants :
         BucketOK(tenants[t], admitted[t], clock + 1, TenantRate) /\ Within(admitted[t], TenantRate)
  BY RateTypes, BucketLater DEF RateInv
<1>6. \A k \in Keys :
         /\ KeyOK(windows[k], admitted[k], clock + 1, Window[k])
         /\ KeyRate(admitted[k], Window[k], MaxRequests[k])
  BY RateTypes, KeyLater DEF RateInv
<1> QED
  BY <1>1, <1>2, <1>3, <1>4, <1>5, <1>6 DEF RateInv

\* The timer keeps the invariant.
LEMMA TimerOK == RateInv /\ CleanupTimer => RateInv'
<1> SUFFICES ASSUME RateInv, CleanupTimer PROVE RateInv'
  OBVIOUS
<1>1. UNCHANGED <<clock, tenants, admitted, windows, lastCleanup>>
  BY DEF CleanupTimer
<1>2. \A a \in Addresses : buckets'[a] = IF clock - buckets[a].lastRefill > IdleAfter
                                         THEN NoBucket ELSE buckets[a]
  BY DEF CleanupTimer
<1>3. buckets' \in [Addresses -> [tokens : Int, lastRefill : Int]]
  <2>1. NoBucket \in [tokens : Int, lastRefill : Int]
    BY DEF NoBucket
  <2>2. \A a \in Addresses : buckets'[a] \in [tokens : Int, lastRefill : Int]
    BY <2>1, <1>2, RateTypes
  <2>3. buckets' = [a \in Addresses |-> buckets'[a]]
    BY DEF CleanupTimer
  <2> QED
    BY <2>2, <2>3
<1>4. IpRate > 0 => \A a \in Addresses : BucketOK(buckets'[a], admitted[a], clock, IpRate)
  <2> SUFFICES ASSUME IpRate > 0, NEW a \in Addresses
               PROVE  BucketOK(buckets'[a], admitted[a], clock, IpRate)
    OBVIOUS
  <2>1. BucketOK(buckets[a], admitted[a], clock, IpRate)
    BY DEF RateInv
  <2>2. CASE clock - buckets[a].lastRefill > IdleAfter
    <3>1. BucketOK(NoBucket, admitted[a], clock, IpRate)
      <4>1. buckets[a] \in [tokens : Int, lastRefill : Int]
        BY RateTypes
      <4> QED
        BY <4>1, <2>1, <2>2, RateTypes, ForgottenOK
    <3> QED
      BY <3>1, <2>2, <1>2
  <2>3. CASE ~(clock - buckets[a].lastRefill > IdleAfter)
    BY <2>1, <2>3, <1>2
  <2> QED
    BY <2>2, <2>3
<1>5. IpRate = 0 => \A a \in Addresses : buckets'[a] = NoBucket
  BY <1>2 DEF RateInv
<1> QED
  BY <1>1, <1>3, <1>4, <1>5 DEF RateInv

\* A cleanup of the windows keeps what they say.
LEMMA CleanedOK ==
    ASSUME RateInv, NEW w \in [Keys -> Seq(Int)], NEW adm,
           \A k \in Keys : KeyOK(w[k], adm[k], clock, Window[k])
    PROVE  /\ StaleKeysCleaned(w) \in [Keys -> Seq(Int)]
           /\ \A k \in Keys : KeyOK(StaleKeysCleaned(w)[k], adm[k], clock, Window[k])
<1>1. ASSUME NEW k \in Keys
      PROVE  /\ StaleKeysCleaned(w)[k] \in Seq(Int)
             /\ KeyOK(StaleKeysCleaned(w)[k], adm[k], clock, Window[k])
  <2>1. StaleKeysCleaned(w)[k] = Newer(w[k], clock - StaleAfter)
    BY DEF StaleKeysCleaned
  <2>2. KeyOK(Newer(w[k], clock - StaleAfter), adm[k], clock, Window[k])
    BY RateTypes, KeyCleaned
  <2>3. Newer(w[k], clock - StaleAfter) \in Seq(Int)
    BY <2>2 DEF KeyOK, LeftOf
  <2> QED
    BY <2>1, <2>2, <2>3
<1>2. StaleKeysCleaned(w) = [k \in Keys |-> StaleKeysCleaned(w)[k]]
  BY DEF StaleKeysCleaned
<1>3. \A k \in Keys : StaleKeysCleaned(w)[k] \in Seq(Int)
  BY <1>1
<1>4. StaleKeysCleaned(w) \in [Keys -> Seq(Int)]
  <2> DEFINE c == StaleKeysCleaned(w)
  <2> HIDE DEF c
  <2> QED
    BY <1>2, <1>3 DEF c
<1> QED
  BY <1>1, <1>4

\* cleanup keeps the invariant.
LEMMA CleanupOK == RateInv /\ cleanup => RateInv'
<1> SUFFICES ASSUME RateInv, cleanup PROVE RateInv'
  OBVIOUS
<1>1. UNCHANGED <<clock, buckets, tenants, admitted, lastCleanup>> /\ windows' = StaleKeysCleaned(windows)
  BY DEF cleanup
<1>2. /\ windows \in [Keys -> Seq(Int)]
      /\ \A k \in Keys : KeyOK(windows[k], admitted[k], clock, Window[k])
  BY DEF RateInv
<1>3. /\ windows' \in [Keys -> Seq(Int)]
      /\ \A k \in Keys : KeyOK(windows'[k], admitted[k], clock, Window[k])
  BY <1>1, <1>2, CleanedOK
<1> QED
  BY <1>1, <1>3 DEF RateInv

\* Of what a step of the limiter changes only the keys need a look.
LEMMA LimiterFrame ==
    ASSUME RateInv, UNCHANGED <<clock, buckets, tenants>>, lastCleanup' \in 0..clock,
           windows' \in [Keys -> Seq(Int)], admitted' \in [Subjects -> Seq(Int)],
           \A s \in Subjects \ Keys : admitted'[s] = admitted[s],
           \A k \in Keys : /\ KeyOK(windows'[k], admitted'[k], clock, Window[k])
                           /\ KeyRate(admitted'[k], Window[k], MaxRequests[k])
    PROVE  RateInv'
<1>1. \A a \in Addresses : admitted'[a] = admitted[a]
  BY RateTypes
<1>2. \A t \in Tenants : admitted'[t] = admitted[t]
  BY RateTypes
<1> QED
  BY <1>1, <1>2 DEF RateInv

\* check keeps the invariant.
LEMMA CheckOK == ASSUME RateInv, NEW key \in Keys, check(key) PROVE RateInv'
<1> DEFINE recent == Newer(windows[key], clock - Window[key])
           passes == Len(recent) < MaxRequests[key]
           noted  == [windows EXCEPT ![key] = Append(recent, clock)]
           due    == clock - lastCleanup > CleanupEvery
<1>1. /\ windows' = CASE ~passes -> [windows EXCEPT ![key] = recent]
                      [] passes /\ due -> StaleKeysCleaned(noted)
                      [] OTHER -> noted
      /\ lastCleanup' = IF passes /\ due THEN clock ELSE lastCleanup
      /\ admitted' = IF passes THEN [admitted EXCEPT ![key] = Append(@, clock)] ELSE admitted
      /\ UNCHANGED <<clock, buckets, tenants>>
  BY DEF check
<1>2. /\ KeyOK(recent, admitted[key], clock, Window[key])
      /\ passes => /\ KeyOK(Append(recent, clock), Append(admitted[key], clock), clock, Window[key])
                   /\ KeyRate(Append(admitted[key], clock), Window[key], MaxRequests[key])
  BY RateTypes, KeyStep DEF RateInv
<1>3. recent \in Seq(Int) /\ (passes => Append(recent, clock) \in Seq(Int))
  BY <1>2 DEF KeyOK, LeftOf
<1> HIDE DEF recent, passes, noted, due
<1>4. lastCleanup' \in 0..clock
  BY <1>1, RateTypes
<1>5. CASE ~passes
  <2>1. windows' = [windows EXCEPT ![key] = recent] /\ admitted' = admitted
    BY <1>1, <1>5
  <2>2. \A k \in Keys : windows'[k] = IF k = key THEN recent ELSE windows[k]
    BY <2>1, RateTypes
  <2>3. windows' \in [Keys -> Seq(Int)]
    BY <2>1, <1>3, RateTypes
  <2>4. \A k \in Keys : /\ KeyOK(windows'[k], admitted'[k], clock, Window[k])
                        /\ KeyRate(admitted'[k], Window[k], MaxRequests[k])
    BY <2>1, <2>2, <1>2 DEF RateInv
  <2> QED
    BY <2>1, <2>3, <2>4, <1>1, <1>4, RateTypes, LimiterFrame
<1>6. CASE passes
  <2>1. admitted' = [admitted EXCEPT ![key] = Append(@, clock)]
    BY <1>1, <1>6
  <2>2. /\ admitted' \in [Subjects -> Seq(Int)]
        /\ \A s \in Subjects : admitted'[s] = IF s = key THEN Append(admitted[key], clock) ELSE admitted[s]
    BY <2>1, RateTypes
  <2>3. /\ noted \in [Keys -> Seq(Int)]
        /\ \A k \in Keys : noted[k] = IF k = key THEN Append(recent, clock) ELSE windows[k]
    BY <1>3, <1>6, RateTypes DEF noted
  <2>4. \A k \in Keys : /\ KeyOK(noted[k], admitted'[k], clock, Window[k])
                        /\ KeyRate(admitted'[k], Window[k], MaxRequests[k])
    BY <2>2, <2>3, <1>2, <1>6, RateTypes DEF RateInv
  <2>5. CASE due
    <3>1. windows' = StaleKeysCleaned(noted)
      BY <2>5, <1>1, <1>6
    <3>2. PICK adm : adm = admitted'
      OBVIOUS
    <3>3. \A k \in Keys : KeyOK(noted[k], adm[k], clock, Window[k])
      BY <3>2, <2>4
    <3>4. /\ windows' \in [Keys -> Seq(Int)]
          /\ \A k \in Keys : KeyOK(windows'[k], adm[k], clock, Window[k])
      BY <3>1, <3>3, <2>3, CleanedOK
    <3> QED
      BY <3>2, <3>4, <2>2, <2>4, <1>1, <1>4, LimiterFrame
  <2>6. CASE ~due
    <3>1. windows' = noted
      BY <2>6, <1>1, <1>6
    <3> QED
      BY <3>1, <2>2, <2>3, <2>4, <1>1, <1>4, LimiterFrame
  <2> QED
    BY <2>5, <2>6
<1> QED
  BY <1>5, <1>6

\* reset keeps the invariant.
LEMMA ResetOK == ASSUME RateInv, NEW key \in Keys, reset(key) PROVE RateInv'
<1>1. << >> \in Seq(Int) /\ Len(<< >>) = 0
  BY EmptySeq
<1>2. /\ InTime(<< >>, clock) /\ LeftOf(<< >>, << >>, 0)
  BY <1>1 DEF InTime, LeftOf
<1>3. KeyOK(<< >>, << >>, clock, Window[key]) /\ KeyRate(<< >>, Window[key], MaxRequests[key])
  BY <1>1, <1>2 DEF KeyOK, KeyRate
<1>4. /\ windows' = [windows EXCEPT ![key] = << >>] /\ admitted' = [admitted EXCEPT ![key] = << >>]
      /\ UNCHANGED <<clock, buckets, tenants, lastCleanup>>
  BY DEF reset
<1>5. /\ windows' \in [Keys -> Seq(Int)] /\ admitted' \in [Subjects -> Seq(Int)]
      /\ \A k \in Keys : windows'[k] = IF k = key THEN << >> ELSE windows[k]
      /\ \A s \in Subjects : admitted'[s] = IF s = key THEN << >> ELSE admitted[s]
  BY <1>1, <1>4, RateTypes
<1>6. \A k \in Keys : /\ KeyOK(windows'[k], admitted'[k], clock, Window[k])
                      /\ KeyRate(admitted'[k], Window[k], MaxRequests[k])
  BY <1>3, <1>5, RateTypes DEF RateInv
<1> QED
  BY <1>4, <1>5, <1>6, RateTypes, LimiterFrame

\* A tenant pays even if the address is then refused.
LEMMA PaidOK ==
    ASSUME NEW b \in [tokens : Nat, lastRefill : Nat], NEW times, NEW rate \in Nat, clock \in Nat,
           Second \in Nat \ {0}, BucketOK(b, times, clock, rate), b # NoBucket, Passes(b)
    PROVE  BucketOK(Spent(b), times, clock, rate)
<1> DEFINE p == Spent(b)
<1>1. /\ InTime(times, clock) /\ Len(times) \in Nat /\ \A i \in 1..Len(times) : times[i] \in 0..clock
      /\ b.tokens <= rate * Second /\ b.lastRefill \in 0..clock /\ rate * Second \in Nat
  BY DEF BucketOK, InTime
<1>2. /\ p \in [tokens : Nat, lastRefill : Nat] /\ p.tokens \in Nat
      /\ p.tokens = b.tokens - Second /\ p.lastRefill = b.lastRefill
  <2>1. b.tokens >= Second
    BY DEF Passes
  <2> QED
    BY <2>1 DEF Spent
<1>3. p # NoBucket
  <2>1. NoBucket.tokens = -1
    BY DEF NoBucket
  <2> QED
    BY <2>1, <1>2
<1> HIDE DEF p
<1>4. p \in [tokens : Nat, lastRefill : 0..clock] /\ p.tokens <= rate * Second
  BY <1>1, <1>2
<1>5. ASSUME NEW i \in 1..Len(times)
      PROVE  (Len(times) - i + 1) * Second + p.tokens <= rate * Second + rate * (p.lastRefill - times[i])
  <2>1. PICK m \in Int : m = (Len(times) - i + 1) * Second
    BY <1>1
  <2>2. PICK g \in Int : g = rate * Second + rate * (b.lastRefill - times[i])
    BY <1>1
  <2>3. m + b.tokens <= g
    BY <2>1, <2>2 DEF BucketOK
  <2>4. m + p.tokens <= g
    BY <2>3, <1>2
  <2> QED
    BY <2>1, <2>2, <2>4, <1>2
<1>6. BucketOK(p, times, clock, rate)
  BY <1>1, <1>3, <1>4, <1>5 DEF BucketOK
<1> QED
  BY <1>6 DEF p

\* checkRateLimit keeps the invariant.
LEMMA CheckRateLimitOK ==
    ASSUME RateInv, NEW ip \in Addresses, NEW tenant \in Tenants \cup {NoTenant},
           checkRateLimit(ip, tenant)
    PROVE  RateInv'
<1> DEFINE byTenant == TenantRate > 0 /\ tenant # NoTenant
           tb == IF byTenant THEN Refilled(tenants[tenant], TenantRate) ELSE NoBucket
           ib == Refilled(buckets[ip], IpRate)
           tenantPasses == byTenant => Passes(tb)
           ipPasses     == IpRate > 0 => Passes(ib)
           Bucket == [tokens : Int, lastRefill : Int]
<1>1. /\ tenants' = IF byTenant THEN [tenants EXCEPT ![tenant] = IF tenantPasses THEN Spent(tb) ELSE tb]
                    ELSE tenants
      /\ buckets' = IF tenantPasses /\ IpRate > 0
                    THEN [buckets EXCEPT ![ip] = IF ipPasses THEN Spent(ib) ELSE ib] ELSE buckets
      /\ admitted' = IF tenantPasses /\ ipPasses
                     THEN [s \in Subjects |-> IF s \in {ip, tenant} THEN Append(admitted[s], clock)
                                              ELSE admitted[s]]
                     ELSE admitted
      /\ UNCHANGED <<clock, windows, lastCleanup>>
  BY DEF checkRateLimit
<1>2. byTenant => /\ tenant \in Tenants
                  /\ BucketOK(tenants[tenant], admitted[tenant], clock, TenantRate)
                  /\ Within(admitted[tenant], TenantRate) /\ tenants[tenant] \in Bucket
  BY RateTypes DEF RateInv
<1>3. byTenant => /\ BucketOK(tb, admitted[tenant], clock, TenantRate)
                  /\ tb # NoBucket /\ tb.lastRefill = clock
                  /\ tb \in [tokens : Nat, lastRefill : Nat] /\ tb \in Bucket
  <2> SUFFICES ASSUME byTenant
               PROVE  /\ BucketOK(tb, admitted[tenant], clock, TenantRate)
                      /\ tb # NoBucket /\ tb.lastRefill = clock
                      /\ tb \in [tokens : Nat, lastRefill : Nat] /\ tb \in Bucket
    OBVIOUS
  <2>1. tb = Refilled(tenants[tenant], TenantRate)
    OBVIOUS
  <2>2. /\ BucketOK(tb, admitted[tenant], clock, TenantRate)
        /\ tb # NoBucket /\ tb.lastRefill = clock /\ tb \in [tokens : Nat, lastRefill : Nat]
    BY <2>1, <1>2, RateTypes, RefilledOK
  <2> QED
    BY <2>2
<1>4. IpRate > 0 => /\ BucketOK(ib, admitted[ip], clock, IpRate) /\ Within(admitted[ip], IpRate)
                    /\ ib # NoBucket /\ ib.lastRefill = clock
                    /\ ib \in [tokens : Nat, lastRefill : Nat] /\ ib \in Bucket
  <2> SUFFICES ASSUME IpRate > 0
               PROVE  /\ BucketOK(ib, admitted[ip], clock, IpRate) /\ Within(admitted[ip], IpRate)
                      /\ ib # NoBucket /\ ib.lastRefill = clock
                      /\ ib \in [tokens : Nat, lastRefill : Nat] /\ ib \in Bucket
    OBVIOUS
  <2>1. /\ BucketOK(buckets[ip], admitted[ip], clock, IpRate) /\ Within(admitted[ip], IpRate)
        /\ buckets[ip] \in Bucket
    BY RateTypes DEF RateInv
  <2>2. /\ BucketOK(ib, admitted[ip], clock, IpRate)
        /\ ib # NoBucket /\ ib.lastRefill = clock /\ ib \in [tokens : Nat, lastRefill : Nat]
    BY <2>1, RateTypes, RefilledOK
  <2> QED
    BY <2>1, <2>2
<1> HIDE DEF tb, ib
<1>5. byTenant /\ tenantPasses =>
         /\ Spent(tb) \in Bucket /\ BucketOK(Spent(tb), admitted[tenant], clock, TenantRate)
         /\ BucketOK(Spent(tb), Append(admitted[tenant], clock), clock, TenantRate)
         /\ Within(Append(admitted[tenant], clock), TenantRate)
  <2> SUFFICES ASSUME byTenant, Passes(tb)
               PROVE  /\ Spent(tb) \in Bucket /\ BucketOK(Spent(tb), admitted[tenant], clock, TenantRate)
                      /\ BucketOK(Spent(tb), Append(admitted[tenant], clock), clock, TenantRate)
                      /\ Within(Append(admitted[tenant], clock), TenantRate)
    OBVIOUS
  <2>1. /\ BucketOK(Spent(tb), Append(admitted[tenant], clock), clock, TenantRate)
        /\ Within(Append(admitted[tenant], clock), TenantRate)
        /\ Spent(tb) \in [tokens : Nat, lastRefill : Nat]
    BY <1>2, <1>3, RateTypes, SpentOK
  <2>2. BucketOK(Spent(tb), admitted[tenant], clock, TenantRate)
    BY <1>2, <1>3, RateTypes, PaidOK
  <2> QED
    BY <2>1, <2>2
<1>6. IpRate > 0 /\ ipPasses =>
         /\ Spent(ib) \in Bucket
         /\ BucketOK(Spent(ib), Append(admitted[ip], clock), clock, IpRate)
         /\ Within(Append(admitted[ip], clock), IpRate)
  <2> SUFFICES ASSUME IpRate > 0, Passes(ib)
               PROVE  /\ Spent(ib) \in Bucket
                      /\ BucketOK(Spent(ib), Append(admitted[ip], clock), clock, IpRate)
                      /\ Within(Append(admitted[ip], clock), IpRate)
    OBVIOUS
  <2>1. /\ BucketOK(Spent(ib), Append(admitted[ip], clock), clock, IpRate)
        /\ Within(Append(admitted[ip], clock), IpRate)
        /\ Spent(ib) \in [tokens : Nat, lastRefill : Nat]
    BY <1>4, RateTypes, SpentOK
  <2> QED
    BY <2>1
<1> HIDE DEF tenantPasses, ipPasses
<1>7. tenants' \in [Tenants -> Bucket]
  BY <1>1, <1>2, <1>3, <1>5, RateTypes
<1>8. buckets' \in [Addresses -> Bucket]
  BY <1>1, <1>4, <1>6, RateTypes
<1>9. \A s \in Subjects : admitted'[s] =
         IF tenantPasses /\ ipPasses /\ s \in {ip, tenant} THEN Append(admitted[s], clock) ELSE admitted[s]
  BY <1>1
<1>10. admitted' \in [Subjects -> Seq(Int)]
  <2>1. \A s \in Subjects : admitted[s] \in Seq(Int) /\ Append(admitted[s], clock) \in Seq(Int)
    BY RateTypes
  <2>2. admitted' = [s \in Subjects |-> admitted'[s]]
    BY <1>1, RateTypes
  <2>3. \A s \in Subjects : admitted'[s] \in Seq(Int)
    BY <2>1, <1>9
  <2> QED
    BY <2>2, <2>3
<1>11. \A k \in Keys : admitted'[k] = admitted[k]
  BY <1>9, RateTypes
<1>12. /\ \A a \in Addresses : InTime(admitted'[a], clock)
       /\ \A t \in Tenants : InTime(admitted'[t], clock)
  <2>1. \A s : InTime(s, clock) => InTime(Append(s, clock), clock)
    BY InTimeAppend, RateTypes
  <2>2. ASSUME NEW s \in Addresses \cup Tenants PROVE InTime(admitted'[s], clock)
    <3>1. s \in Subjects /\ InTime(admitted[s], clock)
      BY DEF RateInv, Subjects
    <3>2. admitted'[s] \in {admitted[s], Append(admitted[s], clock)}
      BY <3>1, <1>9
    <3> QED
      BY <3>1, <3>2, <2>1
  <2> QED
    BY <2>2
<1>13. IpRate = 0 => \A a \in Addresses : buckets'[a] = NoBucket
  BY <1>1 DEF RateInv
<1>14. TenantRate = 0 => \A t \in Tenants : tenants'[t] = NoBucket
  BY <1>1 DEF RateInv
<1>15. IpRate > 0 => \A a \in Addresses :
          BucketOK(buckets'[a], admitted'[a], clock, IpRate) /\ Within(admitted'[a], IpRate)
  <2> SUFFICES ASSUME IpRate > 0, NEW a \in Addresses
               PROVE  BucketOK(buckets'[a], admitted'[a], clock, IpRate) /\ Within(admitted'[a], IpRate)
    OBVIOUS
  <2>1. BucketOK(buckets[a], admitted[a], clock, IpRate) /\ Within(admitted[a], IpRate)
    BY DEF RateInv
  <2>2. a # tenant /\ a \in Subjects
    BY RateTypes
  <2>3. CASE a # ip \/ ~tenantPasses
    <3>1. admitted'[a] = admitted[a]
      BY <2>2, <2>3, <1>9
    <3>2. buckets'[a] = buckets[a]
      BY <2>3, <1>1, RateTypes
    <3> QED
      BY <3>1, <3>2, <2>1
  <2>4. CASE a = ip /\ tenantPasses /\ ipPasses
    <3>1. admitted'[a] = Append(admitted[ip], clock) /\ buckets'[a] = Spent(ib)
      BY <2>2, <2>4, <1>1, <1>9, RateTypes
    <3> QED
      BY <3>1, <2>4, <1>6
  <2>5. CASE a = ip /\ tenantPasses /\ ~ipPasses
    <3>1. admitted'[a] = admitted[ip] /\ buckets'[a] = ib
      BY <2>2, <2>5, <1>1, <1>9, RateTypes
    <3> QED
      BY <3>1, <2>5, <1>4
  <2> QED
    BY <2>3, <2>4, <2>5
<1>16. TenantRate > 0 => \A t \in Tenants :
          BucketOK(tenants'[t], admitted'[t], clock, TenantRate) /\ Within(admitted'[t], TenantRate)
  <2> SUFFICES ASSUME TenantRate > 0, NEW t \in Tenants
               PROVE  BucketOK(tenants'[t], admitted'[t], clock, TenantRate) /\ Within(admitted'[t], TenantRate)
    OBVIOUS
  <2>1. BucketOK(tenants[t], admitted[t], clock, TenantRate) /\ Within(admitted[t], TenantRate)
    BY DEF RateInv
  <2>2. t # ip /\ t \in Subjects /\ t # NoTenant
    BY RateTypes, RateAssumption
  <2>3. CASE t # tenant
    <3>1. admitted'[t] = admitted[t]
      BY <2>2, <2>3, <1>9
    <3>2. tenants'[t] = tenants[t]
      BY <2>3, <1>1, RateTypes
    <3> QED
      BY <3>1, <3>2, <2>1
  <2>4. CASE t = tenant /\ tenantPasses
    <3>1. byTenant /\ tenants'[t] = Spent(tb)
      BY <2>2, <2>4, <1>1, RateTypes
    <3>2. admitted'[t] \in {admitted[tenant], Append(admitted[tenant], clock)}
      BY <2>2, <2>4, <1>9
    <3> QED
      BY <3>1, <3>2, <2>1, <2>4, <1>5
  <2>5. CASE t = tenant /\ ~tenantPasses
    <3>1. byTenant /\ tenants'[t] = tb /\ admitted'[t] = admitted[t]
      BY <2>2, <2>5, <1>1, <1>9, RateTypes
    <3> QED
      BY <3>1, <2>1, <2>5, <1>3
  <2> QED
    BY <2>3, <2>4, <2>5
<1> QED
  BY <1>1, <1>7, <1>8, <1>10, <1>11, <1>12, <1>13, <1>14, <1>15, <1>16 DEF RateInv

\* Every step of the limiters keeps their invariant.
LEMMA RateNextInv == RateInv /\ [BucketNext \/ LimiterNext]_rateVars => RateInv'
<1> SUFFICES ASSUME RateInv, [BucketNext \/ LimiterNext]_rateVars PROVE RateInv'
  OBVIOUS
<1>1. CASE UNCHANGED rateVars
  BY <1>1 DEF rateVars, RateInv
<1>2. CASE Tick
  BY <1>2, TickOK
<1>3. CASE \E ip \in Addresses, t \in Tenants \cup {NoTenant} : checkRateLimit(ip, t)
  BY <1>3, CheckRateLimitOK
<1>4. CASE CleanupTimer
  BY <1>4, TimerOK
<1>5. CASE cleanup
  BY <1>5, CleanupOK
<1>6. CASE \E k \in Keys : check(k)
  BY <1>6, CheckOK
<1>7. CASE \E k \in Keys : reset(k)
  BY <1>7, ResetOK
<1> QED
  BY <1>1, <1>2, <1>3, <1>4, <1>5, <1>6, <1>7 DEF BucketNext, LimiterNext

\* The invariant holds throughout.
LEMMA RateInvariance == RateSpec => []RateInv
BY RateInitOK, RateNextInv, PTL DEF RateSpec

\* Tokens never exceed the burst, and the windows hold times up to the present.
LEMMA RateInvTypes == RateInv => RateTypeOK
<1> SUFFICES ASSUME RateInv PROVE RateTypeOK
  OBVIOUS
<1>1. \A a \in Addresses : buckets[a].tokens \in -1..IpRate * Second
  <2> SUFFICES ASSUME NEW a \in Addresses PROVE buckets[a].tokens \in -1..IpRate * Second
    OBVIOUS
  <2>1. NoBucket.tokens = -1 /\ IpRate * Second \in Nat
    BY RateTypes DEF NoBucket
  <2>2. CASE buckets[a] = NoBucket
    BY <2>1, <2>2
  <2>3. CASE buckets[a] # NoBucket
    <3>1. IpRate > 0
      BY <2>3, RateTypes DEF RateInv
    <3>2. buckets[a].tokens \in Nat /\ buckets[a].tokens <= IpRate * Second
      BY <3>1, <2>3 DEF RateInv, BucketOK
    <3> QED
      BY <3>2, <2>1
  <2> QED
    BY <2>2, <2>3
<1>2. \A t \in Tenants : tenants[t].tokens \in -1..TenantRate * Second
  <2> SUFFICES ASSUME NEW t \in Tenants PROVE tenants[t].tokens \in -1..TenantRate * Second
    OBVIOUS
  <2>1. NoBucket.tokens = -1 /\ TenantRate * Second \in Nat
    BY RateTypes DEF NoBucket
  <2>2. CASE tenants[t] = NoBucket
    BY <2>1, <2>2
  <2>3. CASE tenants[t] # NoBucket
    <3>1. TenantRate > 0
      BY <2>3, RateTypes DEF RateInv
    <3>2. tenants[t].tokens \in Nat /\ tenants[t].tokens <= TenantRate * Second
      BY <3>1, <2>3 DEF RateInv, BucketOK
    <3> QED
      BY <3>2, <2>1
  <2> QED
    BY <2>2, <2>3
<1>3. \A k \in Keys : \A i \in 1..Len(windows[k]) : windows[k][i] \in 0..clock
  <2> SUFFICES ASSUME NEW k \in Keys PROVE InTime(windows[k], clock)
    BY DEF InTime
  <2>1. KeyOK(windows[k], admitted[k], clock, Window[k])
    BY DEF RateInv
  <2>2. InTime(admitted[k], clock) /\ \E c \in Nat : LeftOf(windows[k], admitted[k], c)
    BY <2>1 DEF KeyOK
  <2> QED
    BY <2>2, RateTypes, LeftInTime
<1> QED
  BY <1>1, <1>2, <1>3 DEF RateTypeOK, RateInv

\* They do throughout (checkRateLimit and RateLimiter).
THEOREM RateTypeCorrect == RateSpec => []RateTypeOK
BY RateInvTypes, RateInvariance, PTL

\* For any rates, windows and limits, no address, tenant or key passes more
\* than its limit over any stretch of time, whatever the timer and the cleanups
\* forget (checkRateLimit, cleanupTimer, RateLimiter.check and cleanup).
THEOREM RateBounded == RateSpec => []AdmittedWithinRate
<1>1. RateInv => AdmittedWithinRate
  BY DEF RateInv, AdmittedWithinRate, WithinBucket, Within, KeyRate
<1> QED
  BY <1>1, RateInvariance, PTL
-----------------------------------------------------------------------------
(* The daemon *)

Places == {"idle", "flush", "flushing", "closing", "persist", "stop", "draining",
           "closing server", "bus"}
Stopping == {"stop", "draining", "closing server", "bus"}
Phases == Alive \cup {"refused", "killed", "exited"}

\* Some shutdown has handed the buffer over.
Flushed == \E f \in Flushers : at[f] \notin {"idle", "flush"}

\* A request in flight has a token.
ReqOK(r) ==
    req[r].at \in {"body", "auth"} =>
        {"at", "token"} \subseteq DOMAIN req[r] /\ req[r].token \in Tokens

TypesOK ==
    /\ env \in Environments
    /\ proc \in Phases
    /\ listening \in BOOLEAN /\ ready \in BOOLEAN /\ shuttingDown \in BOOLEAN
    /\ auditFailed \in BOOLEAN
    /\ drainResolve \in Signals \cup {NoStop}
    /\ at \in [Flushers -> Places]
    /\ sending \in [Flushers -> SUBSET {"early", "late"}]
    /\ buffered \in SUBSET {"early", "late"}
    /\ DOMAIN req = Requests

RequestsOK ==
    /\ \A r \in Requests : ReqOK(r)
    /\ proc \notin {"serving", "exited"} => InFlight = {} /\ ~listening

\* What has passed the gate.
GateOK ==
    env.enterprise =>
        /\ proc \in {"policy", "audit", "model", "memory", "bootstrapped", "serving"} =>
              env.audit # "memory" /\ env.auth # {}
        /\ proc \in {"audit", "model", "memory", "bootstrapped", "serving"} => env.policy = "good"
        /\ proc \in {"model", "memory", "bootstrapped", "serving"} => env.audit # "syslog"

StopOK ==
    /\ \A f \in Flushers : sending[f] # {} => at[f] \in {"flushing", "closing"}
    /\ drainResolve # NoStop => shuttingDown
    /\ \A f \in Flushers : at[f] \in Stopping => f \in Signals
    /\ \A f \in Flushers : at[f] = "persist" => f = "cleanup"

\* Once the buffer has been handed over only late events come into it.
AuditOK ==
    /\ proc = "exited" => Flushed
    /\ Flushed /\ ~auditFailed /\ env.audit \in {"file", "http"} => "early" \notin buffered

\* cleanup is the first to flush, so that only it may be posting early events,
\* and one of the procedures has run to its end when the process has exited.
HandoverOK ==
    /\ at["cleanup"] = "idle" => \A s \in Signals : at[s] = "idle"
    /\ at["cleanup"] = "flush" => \A s \in Signals : at[s] \in {"idle", "flush"}
    /\ env.audit # "http" => \A f \in Flushers : at[f] \notin {"flushing", "closing"}
    /\ ~auditFailed /\ env.audit \in {"file", "http"} =>
          \A f \in Flushers : "early" \in sending[f] => f = "cleanup"
    /\ proc = "exited" => at["cleanup"] = "persist" \/ \E s \in Signals : at[s] = "bus"

DaemonInv ==
    /\ TypesOK /\ RequestsOK /\ GateOK /\ StopOK
    /\ AuditOK /\ HandoverOK /\ ServedIsPermitted

USE DaemonAssumption
-----------------------------------------------------------------------------
(* Who is entitled *)

\* What each role may do of what the routes ask for.
LEMMA RolesMay ==
    ASSUME NEW role, NEW method
    PROVE  LET a == Actor(role, method) IN
           /\ a.role = role /\ a.authMethod = method
           /\ role = "operator" => ~authorize(a, "admin:policy") /\ ~authorize(a, "admin:audit_export")
                                   /\ ~authorize(a, "admin:tenant")
           /\ role \in {"developer", "viewer"} =>
                 ~authorize(a, "admin:policy") /\ ~authorize(a, "admin:audit_export")
                 /\ ~authorize(a, "admin:tenant") /\ ~authorize(a, "operator:health")
<1>1. /\ ROLE_PERMISSIONS["operator"] = OperatorPermissions \cup ViewerPermissions
      /\ ROLE_PERMISSIONS["developer"] = DevPermissions \cup ViewerPermissions
      /\ ROLE_PERMISSIONS["viewer"] = ViewerPermissions
  BY DEF ROLE_PERMISSIONS
<1>2. Actor(role, method).role = role /\ Actor(role, method).authMethod = method
  BY DEF Actor
<1>3. /\ {"admin:policy", "admin:audit_export", "admin:tenant"} \cap ROLE_PERMISSIONS["operator"] = {}
      /\ {"admin:policy", "admin:audit_export", "admin:tenant", "operator:health"}
            \cap ROLE_PERMISSIONS["developer"] = {}
      /\ {"admin:policy", "admin:audit_export", "admin:tenant", "operator:health"}
            \cap ROLE_PERMISSIONS["viewer"] = {}
  BY <1>1 DEF OperatorPermissions, DevPermissions, ViewerPermissions
<1> QED
  BY <1>2, <1>3 DEF authorize, hasPermission

\* The role of a token: the highest of its groups.
LEMMA RolesOfGroups ==
    ASSUME NEW g \in SUBSET Groups
    PROVE  /\ resolveRole(g) \in Roles
           /\ resolveRole(g) = "admin" => "admins" \in g
           /\ resolveRole(g) = "operator" => "operators" \in g
<1> DEFINE matched == {DEFAULT_GROUP_ROLE_MAPPING[x] : x \in g \ {"other"}}
<1>1. \A x \in g \ {"other"} :
        /\ DEFAULT_GROUP_ROLE_MAPPING[x] = "admin" => x = "admins"
        /\ DEFAULT_GROUP_ROLE_MAPPING[x] = "operator" => x = "operators"
  BY DEF DEFAULT_GROUP_ROLE_MAPPING, Groups
<1>2. ("admin" \in matched => "admins" \in g) /\ ("operator" \in matched => "operators" \in g)
  BY <1>1
<1> QED
  BY <1>2 DEF resolveRole, Roles

\* What the path of a route asks for.
LEMMA RoutePermission ==
    ASSUME NEW url, Route(url) # "none"
    PROVE  /\ normalizeUrl(url) \in DOMAIN ENDPOINT_PERMISSIONS
           /\ Route(url) \in {"healthz", "readyz", "metrics", "policy", "audit", "tenants",
                              "quotas", "openapi"}
           /\ Route(url) \in {"healthz", "readyz"} =>
                 ENDPOINT_PERMISSIONS[normalizeUrl(url)] = "operator:health"
           /\ Route(url) \in {"policy", "audit", "tenants", "quotas"} =>
                 ENDPOINT_PERMISSIONS[normalizeUrl(url)] \in
                    {"admin:policy", "admin:audit_export", "admin:tenant"}
BY DEF Route, normalizeUrl, ENDPOINT_PERMISSIONS, Probes, Metrics, V1

\* resolveActor and checkPermission together let no one through that is not
\* entitled to the handler, but for an open daemon.
LEMMA PermittedIsEntitled ==
    ASSUME NEW token \in Tokens, NEW keys \in BOOLEAN, NEW url, NEW actor,
           actor = resolveActor(token, keys), actor \notin {Nobody, NoActor},
           checkPermission(actor, normalizeUrl(url)), Route(url) # "none"
    PROVE  Open \/ Entitled(token, Route(url))
<1> DEFINE perm == ENDPOINT_PERMISSIONS[normalizeUrl(url)]
<1>1. authorize(actor, perm)
  BY RoutePermission DEF checkPermission
<1>2. Route(url) \in {"healthz", "readyz"} => perm = "operator:health"
  BY RoutePermission
<1>3. Route(url) \in {"policy", "audit", "tenants", "quotas"} =>
         perm \in {"admin:policy", "admin:audit_export", "admin:tenant"}
  BY RoutePermission
<1>4. Route(url) \in {"healthz", "readyz", "metrics", "policy", "audit", "tenants", "quotas", "openapi"}
  BY RoutePermission
<1> HIDE DEF perm
<1>5. CASE ~HasKey /\ ~HasOidc
  <2>1. ~env.requireAuth
    BY <1>5 DEF resolveActor
  <2> QED
    BY <1>5, <2>1 DEF Open
<1>6. CASE (HasKey \/ HasOidc) /\ HasOidc /\ verifyJwt(token, keys)
  <2>1. actor = actorFromJwt(token)
    BY <1>6 DEF resolveActor
  <2>2. token.kind = "jwt"
    BY <1>6 DEF verifyJwt
  <2>3. PICK g \in SUBSET Groups : token = Jwt(g)
    BY <2>2 DEF Tokens, NoToken, KeyToken, BadToken
  <2>4. token.groups = g
    BY <2>3 DEF Jwt
  <2>5. actor = Actor(resolveRole(g), "oidc")
    BY <2>1, <2>4 DEF actorFromJwt
  <2>6. /\ resolveRole(g) \in Roles
        /\ resolveRole(g) = "admin" => "admins" \in g
        /\ resolveRole(g) = "operator" => "operators" \in g
    BY RolesOfGroups
  <2>7. perm \in {"admin:policy", "admin:audit_export", "admin:tenant"} => "admins" \in g
    BY <1>1, <2>5, <2>6, RolesMay DEF Roles
  <2>8. perm = "operator:health" => "admins" \in g \/ "operators" \in g
    BY <1>1, <2>5, <2>6, RolesMay DEF Roles
  <2> QED
    BY <1>2, <1>3, <1>4, <1>6, <2>2, <2>4, <2>7, <2>8 DEF Entitled
<1>7. CASE (HasKey \/ HasOidc) /\ ~(HasOidc /\ verifyJwt(token, keys))
  <2>1. token # NoToken
    BY <1>7 DEF resolveActor
  <2>2. HasOidc => env.fallback
    BY <1>7, <2>1 DEF resolveActor
  <2>3. actor = IF HasKey THEN ByKey(token) ELSE Nobody
    BY <1>7, <2>1, <2>2 DEF resolveActor
  <2>4. HasKey /\ apiKeyMatches(token) /\ actor = actorFromApiKey
    BY <2>3 DEF ByKey
  <2>5. token = KeyToken
    BY <2>4 DEF apiKeyMatches, Tokens, NoToken, KeyToken, BadToken, Jwt
  <2>6. perm \notin {"admin:policy", "admin:audit_export", "admin:tenant"}
    BY <1>1, <2>4, RolesMay DEF actorFromApiKey
  <2> QED
    BY <1>3, <1>4, <2>2, <2>4, <2>5, <2>6 DEF Entitled
<1> QED
  BY <1>5, <1>6, <1>7
-----------------------------------------------------------------------------
(* What most steps leave alone *)

\* The answers there were stay permitted.
LEMMA ServedKept ==
    ASSUME ServedIsPermitted, UNCHANGED <<env, served>>
    PROVE  ServedIsPermitted'
BY DEF ServedIsPermitted, Open, Entitled, HasKey, HasOidc

\* Requests that do not move, of a process that does not start to serve.
LEMMA RequestsKept ==
    ASSUME RequestsOK, UNCHANGED <<req, listening>>,
           proc \in {"serving", "exited"} => proc' \in {"serving", "exited"}
    PROVE  RequestsOK'
BY DEF RequestsOK, ReqOK, InFlight

\* Steps of a process that does not pass a gate.
LEMMA GateKept ==
    ASSUME GateOK, UNCHANGED env, proc' = proc \/ proc' \in {"refused", "killed", "exited"}
    PROVE  GateOK'
BY DEF GateOK

\* A record in the audit adds a late event once a shutdown has begun.
LEMMA RecordingOK ==
    ASSUME TypesOK, AuditOK, Recording, UNCHANGED env, at' \in [Flushers -> Places],
           \A f \in Flushers : at'[f] = at[f] \/ at[f] \notin {"idle", "flush"},
           \A f \in Flushers : at[f] \notin {"idle", "flush"} => at'[f] \notin {"idle", "flush"},
           proc' = proc \/ proc' # "exited"
    PROVE  AuditOK' /\ buffered' \in SUBSET {"early", "late"}
<1>1. buffered' = buffered \cup {IF Signalled THEN "late" ELSE "early"} /\ auditFailed' = auditFailed
  BY DEF Recording
<1>2. Flushed' <=> Flushed
  BY DEF Flushed
<1>3. Flushed => Signalled
  BY DEF Flushed, Signalled
<1>4. AuditOK'
  BY <1>1, <1>2, <1>3 DEF AuditOK
<1> QED
  BY <1>1, <1>4 DEF TypesOK

\* Steps that touch neither the sink nor the places of the shutdowns.
LEMMA AuditKept ==
    ASSUME TypesOK, AuditOK, UNCHANGED <<env, buffered, auditFailed>>,
           \A f \in Flushers : at'[f] = at[f] \/ at[f] \notin {"idle", "flush"},
           \A f \in Flushers : at[f] \notin {"idle", "flush"} => at'[f] \notin {"idle", "flush"},
           proc' = proc \/ proc' # "exited"
    PROVE  AuditOK'
<1>1. Flushed' <=> Flushed
  BY DEF Flushed
<1> QED
  BY <1>1 DEF AuditOK

\* Steps that post nothing and start no shutdown.
LEMMA HandoverKept ==
    ASSUME HandoverOK, UNCHANGED <<env, sending, auditFailed>>,
           \A f \in Flushers : at'[f] = at[f] \/ (at[f] = "draining" /\ at'[f] = "closing server"),
           proc' = proc \/ proc' # "exited"
    PROVE  HandoverOK'
<1>1. "cleanup" \in Flushers /\ Signals \subseteq Flushers
  BY DEF Flushers
<1> QED
  BY <1>1 DEF HandoverOK

\* The start.
LEMMA DaemonInitInv == DaemonInit => DaemonInv
<1> SUFFICES ASSUME DaemonInit PROVE DaemonInv
  OBVIOUS
<1>1. TypesOK
  BY DEF DaemonInit, TypesOK, Phases, Alive, Booting, Places
<1>2. InFlight = {} /\ \A r \in Requests : ReqOK(r)
  BY DEF DaemonInit, InFlight, ReqOK, Idle
<1>3. RequestsOK /\ GateOK
  BY <1>2 DEF DaemonInit, RequestsOK, GateOK
<1>4. StopOK /\ AuditOK /\ ServedIsPermitted
  BY DEF DaemonInit, StopOK, Stopping, AuditOK, Flushed, ServedIsPermitted
<1>5. HandoverOK
  BY DEF DaemonInit, HandoverOK, Flushers
<1> QED
  BY <1>1, <1>3, <1>4, <1>5 DEF DaemonInv
-----------------------------------------------------------------------------
(* createBootstrap *)

\* Each step of the bootstrap passes one control or refuses.
LEMMA BootInv == ASSUME DaemonInv, Boot PROVE DaemonInv'
<1>1. env \in Environment
  BY DEF DaemonInv, TypesOK
<1>2. TypesOK /\ RequestsOK /\ GateOK /\ StopOK /\ AuditOK /\ HandoverOK /\ ServedIsPermitted
  BY DEF DaemonInv
<1>3. proc \in Booting \cup {"bootstrapped"} /\ UNCHANGED <<env, shuttingDown, drainResolve, req, at, sending, auditFailed, served>>
  BY DEF Boot, requireEnterpriseOrDev, LoadPolicy, OpenAudit, ConfigureModel, OpenMemory,
         startDaemon, Untouched, serverVars, sinkVars, Recording, Booting
<1>4. \/ UNCHANGED buffered
      \/ Recording
  BY DEF Boot, requireEnterpriseOrDev, LoadPolicy, OpenAudit, ConfigureModel, OpenMemory,
         startDaemon, Untouched, sinkVars
<1>5. /\ proc' \in {"policy", "audit", "model", "memory", "bootstrapped", "serving", "refused"}
      /\ listening' = listening \/ (listening' = TRUE /\ proc' = "serving")
      /\ ready' = ready \/ ready' = env.healthy
  BY DEF Boot, requireEnterpriseOrDev, LoadPolicy, OpenAudit, ConfigureModel, OpenMemory,
         startDaemon, Untouched, serverVars
<1>6. AuditOK' /\ buffered' \in SUBSET {"early", "late"}
  <2>1. at' \in [Flushers -> Places] /\ proc' # "exited"
    BY <1>2, <1>3, <1>5 DEF TypesOK
  <2>2. CASE UNCHANGED buffered
    BY <1>2, <1>3, <2>1, <2>2, AuditKept DEF TypesOK
  <2>3. CASE Recording
    BY <1>2, <1>3, <2>1, <2>3, RecordingOK
  <2> QED
    BY <1>4, <2>2, <2>3
<1>7. TypesOK'
  BY <1>1, <1>2, <1>3, <1>5, <1>6 DEF TypesOK, Environment, Phases, Alive, Booting
<1>8. RequestsOK'
  <2>1. InFlight = {} /\ ~listening /\ \A r \in Requests : ReqOK(r)
    BY <1>2, <1>3 DEF RequestsOK, Booting
  <2> QED
    BY <1>3, <1>5, <2>1 DEF RequestsOK, ReqOK, InFlight
<1>9. GateOK'
  BY <1>2 DEF GateOK, Boot, requireEnterpriseOrDev, LoadPolicy, OpenAudit, ConfigureModel, OpenMemory,
         startDaemon, Untouched, validateEnterpriseMode
<1>10. StopOK' /\ HandoverOK' /\ ServedIsPermitted'
  BY <1>2, <1>3, <1>5, ServedKept, HandoverKept DEF StopOK
<1> QED
  BY <1>6, <1>7, <1>8, <1>9, <1>10 DEF DaemonInv
-----------------------------------------------------------------------------
(* The request handler *)

\* The end of a request: the stop that it wakes goes on.
LEMMA EndsOK ==
    ASSUME DaemonInv, NEW r \in Requests, Ends(r), proc = "serving"
    PROVE  /\ at' \in [Flushers -> Places] /\ DOMAIN req' = Requests /\ listening' \in BOOLEAN
           /\ UNCHANGED <<env, proc, ready, shuttingDown, drainResolve>>
           /\ \A f \in Flushers : at'[f] = at[f] \/ (at[f] = "draining" /\ at'[f] = "closing server")
           /\ RequestsOK'
<1>1. /\ req' = [req EXCEPT ![r] = Done]
      /\ UNCHANGED <<env, proc, ready, shuttingDown, drainResolve>>
  BY DEF Ends
<1>2. at \in [Flushers -> Places] /\ DOMAIN req = Requests /\ \A q \in Requests : ReqOK(q)
  BY DEF DaemonInv, TypesOK, RequestsOK
<1>3. /\ at' \in [Flushers -> Places]
      /\ \A f \in Flushers : at'[f] = at[f] \/ (at[f] = "draining" /\ at'[f] = "closing server")
  <2>1. CASE at' = at
    BY <1>2, <2>1
  <2>2. CASE at' = [at EXCEPT ![drainResolve] = "closing server"] /\ at[drainResolve] = "draining"
    <3>1. \A f \in Flushers : at'[f] = IF f = drainResolve THEN "closing server" ELSE at[f]
      BY <1>2, <2>2
    <3>2. DOMAIN at' = Flushers /\ "closing server" \in Places
      BY <1>2, <2>2 DEF Places
    <3>3. at' = [f \in Flushers |-> at'[f]]
      BY <1>2, <2>2
    <3> QED
      BY <1>2, <2>2, <3>1, <3>2, <3>3
  <2> QED
    BY <2>1, <2>2 DEF Ends
<1>4. listening' \in BOOLEAN
  <2>1. listening' = TRUE \/ listening' = FALSE
    BY Zenon DEF Ends
  <2> QED
    BY <2>1
<1>5. DOMAIN req' = Requests /\ req'[r] = Done /\ \A q \in Requests \ {r} : req'[q] = req[q]
  BY <1>1, <1>2
<1>6. ASSUME NEW q \in Requests PROVE ReqOK(q)'
  <2>1. CASE q = r
    BY <1>5, <2>1 DEF ReqOK, Done
  <2>2. CASE q # r
    BY <1>2, <1>5, <2>2 DEF ReqOK
  <2> QED
    BY <2>1, <2>2
<1>7. RequestsOK'
  BY <1>1, <1>6 DEF RequestsOK
<1> QED
  BY <1>1, <1>3, <1>5, <1>7, <1>4

\* A request that is answered, with or without a record in the audit.
LEMMA AnswerInv ==
    ASSUME DaemonInv, NEW r \in Requests, proc = "serving", Ends(r),
           UNCHANGED sinkVars \/ Recording, ServedIsPermitted'
    PROVE  DaemonInv'
<1>1. TypesOK /\ RequestsOK /\ GateOK /\ StopOK /\ AuditOK /\ HandoverOK
  BY DEF DaemonInv
<1>2. /\ at' \in [Flushers -> Places] /\ DOMAIN req' = Requests /\ listening' \in BOOLEAN
      /\ UNCHANGED <<env, proc, ready, shuttingDown, drainResolve>>
      /\ \A f \in Flushers : at'[f] = at[f] \/ (at[f] = "draining" /\ at'[f] = "closing server")
      /\ RequestsOK'
  BY EndsOK
<1>3. UNCHANGED <<sending, auditFailed>>
  BY DEF sinkVars, Recording
<1>4. AuditOK' /\ buffered' \in SUBSET {"early", "late"}
  <2>1. CASE UNCHANGED sinkVars
    BY <1>1, <1>2, <2>1, AuditKept DEF TypesOK, sinkVars
  <2>2. CASE Recording
    BY <1>1, <1>2, <2>2, RecordingOK
  <2> QED
    BY <2>1, <2>2
<1>5. TypesOK' /\ GateOK' /\ HandoverOK'
  BY <1>1, <1>2, <1>3, <1>4, GateKept, HandoverKept DEF TypesOK
<1>6. StopOK'
  BY <1>1, <1>2, <1>3 DEF StopOK, Stopping
<1> QED
  BY <1>2, <1>4, <1>5, <1>6 DEF DaemonInv

\* Steps of one request that stays in flight, or of one that is turned away at
\* the door.
LEMMA RequestMoves ==
    ASSUME DaemonInv, NEW r \in Requests, proc = "serving", DOMAIN req' = Requests, ReqOK(r)',
           \A q \in Requests \ {r} : req'[q] = req[q],
           UNCHANGED <<env, proc, serverVars, at, sinkVars, served>>
    PROVE  DaemonInv'
<1>1. TypesOK /\ RequestsOK /\ GateOK /\ StopOK /\ AuditOK /\ HandoverOK /\ ServedIsPermitted
  BY DEF DaemonInv
<1>2. UNCHANGED <<env, proc, listening, ready, shuttingDown, drainResolve, at, buffered, sending,
                  auditFailed, served>>
  BY DEF serverVars, sinkVars
<1>3. ASSUME NEW q \in Requests PROVE ReqOK(q)'
  <2>1. CASE q # r
    BY <1>1, <2>1 DEF RequestsOK, ReqOK
  <2> QED
    BY <2>1
<1>4. RequestsOK'
  BY <1>2, <1>3 DEF RequestsOK
<1>5. TypesOK' /\ GateOK' /\ StopOK' /\ AuditOK' /\ HandoverOK' /\ ServedIsPermitted'
  BY <1>1, <1>2, GateKept, AuditKept, HandoverKept, ServedKept DEF TypesOK, StopOK
<1> QED
  BY <1>4, <1>5 DEF DaemonInv

\* A request arrives and is counted as in flight.
LEMMA ArriveInv ==
    ASSUME DaemonInv, NEW r \in Requests, NEW i \in Inputs[r], NEW method, Arrive(r, i, method)
    PROVE  DaemonInv'
<1> DEFINE new == [at |-> "body", url |-> i.url, token |-> i.token]
<1>1. /\ proc = "serving" /\ UNCHANGED <<env, proc, serverVars, at, sinkVars, served>>
      /\ req' = [req EXCEPT ![r] = new] \/ req' = [req EXCEPT ![r] = Done]
  BY DEF Arrive
<1>2. DOMAIN req = Requests
  BY DEF DaemonInv, TypesOK
<1>3. /\ DOMAIN req' = Requests /\ (req'[r] = new \/ req'[r] = Done)
      /\ \A q \in Requests \ {r} : req'[q] = req[q]
  BY <1>1, <1>2
<1>4. i.token \in Tokens
  OBVIOUS
<1>5. ReqOK(r)'
  <2>1. CASE req'[r] = Done
    BY <2>1 DEF ReqOK, Done
  <2>2. CASE req'[r] = new
    BY <1>4, <2>2 DEF ReqOK
  <2> QED
    BY <1>3, <2>1, <2>2
<1> QED
  BY <1>1, <1>3, <1>5, RequestMoves

\* Its body has been read.
LEMMA BodyEndsInv ==
    ASSUME DaemonInv, NEW r \in Requests, BodyEnds(r)
    PROVE  DaemonInv'
<1>1. /\ proc = "serving" /\ UNCHANGED <<env, proc, serverVars, at, sinkVars, served>>
      /\ req[r].at = "body" /\ req' = [req EXCEPT ![r].at = "auth"]
  BY DEF BodyEnds
<1>2. DOMAIN req = Requests /\ ReqOK(r)
  BY DEF DaemonInv, TypesOK, RequestsOK
<1>3. {"at", "token"} \subseteq DOMAIN req[r] /\ req[r].token \in Tokens
  BY <1>1, <1>2 DEF ReqOK
<1>4. /\ DOMAIN req' = Requests /\ \A q \in Requests \ {r} : req'[q] = req[q]
      /\ req'[r] = [req[r] EXCEPT !.at = "auth"]
  BY <1>1, <1>2
<1>5. DOMAIN req'[r] = DOMAIN req[r] /\ req'[r].token = req[r].token
  BY <1>3, <1>4
<1>6. ReqOK(r)'
  BY <1>3, <1>5 DEF ReqOK
<1> QED
  BY <1>1, <1>4, <1>6, RequestMoves

\* A request that ends without an answer 200.
LEMMA RefusedInv ==
    ASSUME DaemonInv, NEW r \in Requests, proc = "serving", Refused(r) \/ Denied(r)
    PROVE  DaemonInv'
<1>1. Ends(r) /\ UNCHANGED served /\ (UNCHANGED sinkVars \/ Recording)
  BY DEF Refused, Denied, sinkVars
<1>2. ServedIsPermitted'
  BY <1>1, ServedKept DEF DaemonInv, Ends
<1> QED
  BY <1>1, <1>2, AnswerInv

\* The handler: what it answers is permitted.
LEMMA HandleInv ==
    ASSUME DaemonInv, NEW r \in Requests, NEW keys \in BOOLEAN, Handle(r, keys)
    PROVE  DaemonInv'
<1> DEFINE actor == resolveActor(req[r].token, keys)
<1>1. proc = "serving" /\ req[r].at = "auth"
  BY DEF Handle
<1>2. \/ Refused(r) \/ Denied(r)
      \/ Ends(r) /\ (UNCHANGED sinkVars \/ Recording) /\ UNCHANGED served
      \/ /\ actor \notin {Nobody, NoActor} /\ checkPermission(actor, normalizeUrl(req[r].url))
         /\ Ends(r) /\ (UNCHANGED sinkVars \/ Recording)
         /\ served' = IF Answers200(Route(req[r].url))
                      THEN {<<req[r].token, Route(req[r].url)>>} ELSE served
  BY Zenon DEF Handle
<1>3. CASE Refused(r) \/ Denied(r)
  BY <1>1, <1>3, RefusedInv
<1>4. CASE Ends(r) /\ (UNCHANGED sinkVars \/ Recording) /\ UNCHANGED served
  <2>1. ServedIsPermitted'
    BY <1>4, ServedKept DEF DaemonInv, Ends
  <2> QED
    BY <1>1, <1>4, <2>1, AnswerInv
<1>5. CASE /\ actor \notin {Nobody, NoActor} /\ checkPermission(actor, normalizeUrl(req[r].url))
           /\ Ends(r) /\ (UNCHANGED sinkVars \/ Recording)
           /\ served' = IF Answers200(Route(req[r].url))
                        THEN {<<req[r].token, Route(req[r].url)>>} ELSE served
  <2>1. env' = env
    BY <1>5 DEF Ends
  <2>2. ReqOK(r)
    BY DEF DaemonInv, RequestsOK
  <2>3. req[r].token \in Tokens
    BY <1>1, <2>2 DEF ReqOK
  <2>4. ServedIsPermitted'
    <3>1. CASE ~Answers200(Route(req[r].url))
      BY <1>5, <2>1, <3>1, ServedKept DEF DaemonInv
    <3>2. CASE Answers200(Route(req[r].url))
      <4> DEFINE tok == req[r].token
                 h   == Route(req[r].url)
      <4>1. h # "none"
        BY <3>2 DEF Answers200
      <4>2. Open \/ Entitled(tok, h)
        BY <1>5, <2>3, <4>1, PermittedIsEntitled
      <4>3. served' = {<<tok, h>>}
        BY <1>5, <3>2
      <4>4. env.enterprise => /\ env.policy = "good" /\ env.audit \in {"file", "http"}
                              /\ Open => env.auth = {"oidc"} /\ ~env.audience
        <5>1. env \in Environment /\ GateOK
          BY DEF DaemonInv, TypesOK
        <5>2. env.enterprise => /\ env.policy = "good" /\ env.audit \in {"file", "http"}
                                /\ env.auth # {}
          BY <1>1, <5>1 DEF GateOK, Environment
        <5>3. env.auth \in SUBSET {"oidc", "key"}
          BY <5>1 DEF Environment
        <5> QED
          BY <5>2, <5>3 DEF Open, HasKey, HasOidc
      <4> HIDE DEF tok, h
      <4>5. \A x \in served' : x[1] = tok /\ x[2] = h
        BY <4>3
      <4> QED
        BY <2>1, <4>2, <4>4, <4>5 DEF ServedIsPermitted, Open, Entitled, HasKey, HasOidc
    <3> QED
      BY <3>1, <3>2
  <2> QED
    BY <1>1, <1>5, <2>4, AnswerInv
<1> QED
  BY <1>2, <1>3, <1>4, <1>5
-----------------------------------------------------------------------------
(* Shutdown *)

\* A signal starts shutdowns; none of them has flushed yet.
LEMMA SignalInv == ASSUME DaemonInv, NEW s \in Signals, Signal(s) PROVE DaemonInv'
<1>1. TypesOK /\ RequestsOK /\ GateOK /\ StopOK /\ AuditOK /\ HandoverOK /\ ServedIsPermitted
  BY DEF DaemonInv
<1>2. UNCHANGED <<env, listening, shuttingDown, drainResolve, req, sending, auditFailed, served>>
  BY DEF Signal
<1>3. CASE proc \in Booting /\ proc' = "killed" /\ UNCHANGED <<ready, at, buffered>>
  <2>1. RequestsOK'
    <3>1. proc \notin {"serving", "exited"}
      BY <1>3 DEF Booting
    <3> QED
      BY <1>1, <1>2, <3>1, RequestsKept
  <2>2. TypesOK' /\ GateOK' /\ StopOK' /\ AuditOK' /\ HandoverOK' /\ ServedIsPermitted'
    BY <1>1, <1>2, <1>3, GateKept, AuditKept, HandoverKept, ServedKept DEF TypesOK, StopOK, Phases
  <2> QED
    BY <2>1, <2>2 DEF DaemonInv
<1>4. CASE proc \in {"bootstrapped", "serving"} /\ UNCHANGED proc
  <2>1. /\ at' = [f \in Flushers |->
                     IF (f = "cleanup" /\ at[f] = "idle") \/ (f = s /\ proc = "serving")
                     THEN "flush" ELSE at[f]]
        /\ buffered' = buffered \/ buffered' = buffered \cup {"late"}
        /\ ready' = ready \/ ready' = FALSE
        /\ at[s] = "idle"
    BY <1>4 DEF Signal, Booting
  <2>2. at \in [Flushers -> Places]
    BY <1>1 DEF TypesOK
  <2>3. /\ at' \in [Flushers -> Places]
        /\ \A f \in Flushers : at'[f] = at[f] \/ (at[f] = "idle" /\ at'[f] = "flush")
    BY <2>1, <2>2 DEF Places
  <2>4. Flushed' <=> Flushed
    BY <2>3 DEF Flushed
  <2>5. AuditOK'
    BY <1>1, <1>2, <1>4, <2>1, <2>4 DEF AuditOK
  <2>6. TypesOK'
    BY <1>1, <1>2, <1>4, <2>1, <2>3 DEF TypesOK
  <2>7. RequestsOK' /\ GateOK' /\ StopOK' /\ ServedIsPermitted'
    BY <1>1, <1>2, <1>4, <2>3, RequestsKept, GateKept, ServedKept DEF StopOK, Stopping
  <2>8. HandoverOK'
    <3>1. "cleanup" \in Flushers /\ Signals \subseteq Flushers /\ "cleanup" \notin Signals
      BY DEF Flushers, Signals
    <3>2. /\ at'["cleanup"] = IF at["cleanup"] = "idle" THEN "flush" ELSE at["cleanup"]
          /\ \A t \in Signals : at'[t] = at[t] \/ (t = s /\ at'[t] = "flush")
      BY <2>1, <3>1
    <3> QED
      BY <1>1, <1>2, <1>4, <2>3, <3>1, <3>2 DEF HandoverOK
  <2> QED
    BY <2>5, <2>6, <2>7, <2>8 DEF DaemonInv
<1> QED
  BY <1>3, <1>4 DEF Signal

\* What a flush leaves in the buffer is empty, late, or not its fault.
LEMMA FlushStepInv == ASSUME DaemonInv, NEW f \in Flushers, FlushStep(f) PROVE DaemonInv'
<1> DEFINE next == IF f = "cleanup" THEN "persist" ELSE "stop"
<1>1. TypesOK /\ RequestsOK /\ GateOK /\ StopOK /\ AuditOK /\ HandoverOK /\ ServedIsPermitted
  BY DEF DaemonInv
<1>2. /\ UNCHANGED <<env, proc, listening, ready, shuttingDown, drainResolve, req, served>>
      /\ proc # "exited"
  BY DEF FlushStep, serverVars, Alive, Booting
<1>3. /\ at \in [Flushers -> Places] /\ sending \in [Flushers -> SUBSET {"early", "late"}]
      /\ buffered \in SUBSET {"early", "late"} /\ auditFailed \in BOOLEAN
      /\ next \in Places \ {"idle", "flush"} /\ env \in Environment
      /\ (next = "stop" /\ f \in Signals) \/ (next = "persist" /\ f = "cleanup")
  BY <1>1 DEF TypesOK, Places, Flushers
<1>4. FlushAndClose(f, next) \/ Answered(f, next)
  BY DEF FlushStep
<1>5. next \notin {"flushing", "closing"}
  BY <1>3
<1> HIDE DEF next
<1>6. f # "cleanup" /\ ~auditFailed /\ env.audit \in {"file", "http"} => "early" \notin buffered
  <2>1. at["cleanup"] = "flush" => f = "cleanup"
    BY DEF FlushStep
  <2>2. at[f] # "idle"
    BY <1>4 DEF FlushAndClose, Answered
  <2>3. f # "cleanup" => at["cleanup"] \notin {"idle", "flush"}
    BY <1>1, <2>1, <2>2 DEF HandoverOK, Flushers
  <2>4. f # "cleanup" => Flushed
    BY <2>3 DEF Flushed, Flushers
  <2> QED
    BY <1>1, <2>4 DEF AuditOK
<1>7. \E place \in Places \ {"idle", "flush"}, b \in SUBSET {"early", "late"} :
        /\ at' = [at EXCEPT ![f] = place]
        /\ sending' = [sending EXCEPT ![f] = b]
        /\ b # {} => place \in {"flushing", "closing"}
        /\ place \in Stopping => f \in Signals
        /\ place = "persist" => f = "cleanup"
        /\ place \in {"flushing", "closing"} => env.audit = "http"
        /\ f # "cleanup" /\ ~auditFailed' /\ env.audit \in {"file", "http"} => "early" \notin b
  <2>1. CASE FlushAndClose(f, next) /\ env.audit \in {"file", "memory", "syslog"}
    <3>1. at' = [at EXCEPT ![f] = next] /\ sending' = sending /\ at[f] = "flush"
      BY <2>1 DEF FlushAndClose, sinkVars
    <3>2. sending[f] = {}
      BY <1>1, <3>1 DEF StopOK
    <3>3. sending' = [sending EXCEPT ![f] = {}]
      BY <1>3, <3>1, <3>2
    <3> QED
      BY <1>3, <1>5, <3>1, <3>3
  <2>2. CASE FlushAndClose(f, next) /\ env.audit = "http"
    <3>1. Post(f, buffered, "flushing", next) /\ auditFailed' = auditFailed
      BY <2>2 DEF FlushAndClose
    <3> QED
      BY <1>3, <1>6, <2>2, <3>1 DEF Post, Places, Stopping
  <2>3. CASE Answered(f, next)
    <3> DEFINE rest == IF env.collector = "up" THEN buffered ELSE buffered \cup sending[f]
    <3>1. rest \in SUBSET {"early", "late"}
      BY <1>3
    <3>2. env.audit = "http"
      BY <1>1, <2>3 DEF Answered, HandoverOK
    <3>3. f # "cleanup" /\ ~auditFailed' => "early" \notin rest
      BY <1>3, <1>6, <2>3, <3>2 DEF Answered
    <3>4. CASE at[f] = "flushing"
      <4>1. Post(f, rest, "closing", next)
        BY <2>3, <3>4 DEF Answered
      <4> HIDE DEF rest
      <4> QED
        BY <1>3, <3>1, <3>2, <3>3, <4>1 DEF Post, Places, Stopping
    <3>5. CASE at[f] # "flushing"
      <4>1. at' = [at EXCEPT ![f] = next] /\ sending' = [sending EXCEPT ![f] = {}]
        BY <2>3, <3>5 DEF Answered
      <4>2. next \in Stopping => f \in Signals
        BY <1>3 DEF Stopping
      <4>3. {} \in SUBSET {"early", "late"} /\ "early" \notin {}
        OBVIOUS
      <4> HIDE DEF rest
      <4> QED
        BY <1>3, <1>5, <4>1, <4>2, <4>3
    <3> QED
      BY <3>4, <3>5
  <2> QED
    BY <1>3, <1>4, <2>1, <2>2, <2>3 DEF Environment
<1>8. PICK place \in Places \ {"idle", "flush"}, b \in SUBSET {"early", "late"} :
        /\ at' = [at EXCEPT ![f] = place]
        /\ sending' = [sending EXCEPT ![f] = b]
        /\ b # {} => place \in {"flushing", "closing"}
        /\ place \in Stopping => f \in Signals
        /\ place = "persist" => f = "cleanup"
        /\ place \in {"flushing", "closing"} => env.audit = "http"
        /\ f # "cleanup" /\ ~auditFailed' /\ env.audit \in {"file", "http"} => "early" \notin b
  BY <1>7
<1>9. /\ at' \in [Flushers -> Places] /\ sending' \in [Flushers -> SUBSET {"early", "late"}]
      /\ at'[f] = place /\ sending'[f] = b
      /\ \A g \in Flushers \ {f} : at'[g] = at[g] /\ sending'[g] = sending[g]
  BY <1>3, <1>8
<1>10. StopOK'
  BY <1>1, <1>2, <1>8, <1>9 DEF StopOK, Stopping
<1>11. buffered' \in SUBSET {"early", "late"} /\ auditFailed' \in BOOLEAN
  <2>1. CASE FlushAndClose(f, next)
    BY <1>3, <2>1 DEF FlushAndClose, Post, sinkVars
  <2>2. CASE Answered(f, next)
    BY <1>3, <2>2 DEF Answered, Post
  <2> QED
    BY <1>4, <2>1, <2>2
<1>12. ~auditFailed' /\ env.audit \in {"file", "http"} => "early" \notin buffered'
  <2>1. CASE FlushAndClose(f, next)
    BY <2>1 DEF FlushAndClose, Post
  <2>2. CASE Answered(f, next)
    <3>1. at[f] \in {"flushing", "closing"}
      BY <2>2 DEF Answered
    <3>2. Flushed
      BY <3>1 DEF Flushed
    <3>3. ~auditFailed' => env.collector = "up" /\ ~auditFailed
      BY <1>3, <2>2 DEF Answered
    <3>4. ~auditFailed' => buffered' \subseteq buffered
      BY <2>2, <3>3 DEF Answered, Post
    <3> QED
      BY <1>1, <3>2, <3>3, <3>4 DEF AuditOK
  <2> QED
    BY <1>4, <2>1, <2>2
<1>13. AuditOK'
  <2>1. Flushed'
    BY <1>8, <1>9 DEF Flushed
  <2> QED
    BY <1>2, <1>12, <2>1 DEF AuditOK
<1>14. TypesOK'
  BY <1>1, <1>2, <1>9, <1>11 DEF TypesOK
<1>15. RequestsOK' /\ GateOK' /\ ServedIsPermitted'
  BY <1>1, <1>2, RequestsKept, GateKept, ServedKept
<1>16. HandoverOK'
  <2>1. "cleanup" \in Flushers /\ Signals \subseteq Flushers
    BY DEF Flushers
  <2>2. at["cleanup"] = "flush" => f = "cleanup"
    BY DEF FlushStep
  <2>3. at[f] # "idle"
    BY <1>4 DEF FlushAndClose, Answered
  <2>4. at'["cleanup"] \notin {"idle", "flush"}
    BY <1>1, <1>8, <1>9, <2>1, <2>2, <2>3 DEF HandoverOK, Flushers
  <2>5. auditFailed => auditFailed'
    <3>1. CASE FlushAndClose(f, next)
      BY <1>3, <3>1 DEF FlushAndClose, sinkVars
    <3>2. CASE Answered(f, next)
      BY <1>3, <3>2 DEF Answered
    <3> QED
      BY <1>4, <3>1, <3>2
  <2>6. ~auditFailed' /\ env'.audit \in {"file", "http"} =>
          \A g \in Flushers : "early" \in sending'[g] => g = "cleanup"
    BY <1>1, <1>2, <1>8, <1>9, <2>5 DEF HandoverOK
  <2>7. env'.audit # "http" => \A g \in Flushers : at'[g] \notin {"flushing", "closing"}
    BY <1>1, <1>2, <1>8, <1>9 DEF HandoverOK
  <2> QED
    BY <1>2, <2>4, <2>6, <2>7 DEF HandoverOK
<1> QED
  BY <1>10, <1>13, <1>14, <1>15, <1>16 DEF DaemonInv

\* The later steps of a shutdown: the buffer has been handed over.
LEMMA LaterStep ==
    ASSUME DaemonInv, NEW f \in Flushers, at[f] \notin {"idle", "flush", "flushing", "closing"},
           NEW place \in Places \ {"idle", "flush", "stop"}, at' = [at EXCEPT ![f] = place],
           UNCHANGED <<env, ready, req, sinkVars, served>>,
           proc' = proc \/ proc' = "exited", proc # "exited",
           proc' = "exited" => (f = "cleanup" /\ place = "persist") \/ (f \in Signals /\ place = "bus"),
           place = at[f] \/ (f \in Signals /\ place \in Stopping), listening' = listening \/ listening' = FALSE,
           shuttingDown' \in BOOLEAN, drainResolve' \in Signals \cup {NoStop},
           drainResolve' # NoStop => shuttingDown'
    PROVE  DaemonInv'
<1>1. TypesOK /\ RequestsOK /\ GateOK /\ StopOK /\ AuditOK /\ HandoverOK /\ ServedIsPermitted
  BY DEF DaemonInv
<1>2. UNCHANGED <<env, ready, req, buffered, sending, auditFailed, served>>
  BY DEF sinkVars
<1>3. at \in [Flushers -> Places]
  BY <1>1 DEF TypesOK
<1>4. at' \in [Flushers -> Places] /\ at'[f] = place /\ \A g \in Flushers \ {f} : at'[g] = at[g]
  BY <1>3
<1>5. sending[f] = {}
  BY <1>1 DEF StopOK
<1>6. StopOK'
  BY <1>1, <1>2, <1>4, <1>5 DEF StopOK, Stopping
<1>7. Flushed /\ Flushed'
  BY <1>4 DEF Flushed
<1>8. AuditOK'
  BY <1>1, <1>2, <1>7 DEF AuditOK
<1>9. TypesOK'
  BY <1>1, <1>2, <1>4 DEF TypesOK, Phases
<1>10. RequestsOK'
  BY <1>1, <1>2 DEF RequestsOK, ReqOK, InFlight
<1>11. GateOK' /\ ServedIsPermitted'
  BY <1>1, <1>2, GateKept, ServedKept
<1>12. HandoverOK'
  <2>1. "cleanup" \in Flushers /\ Signals \subseteq Flushers /\ "cleanup" \notin Signals
    BY DEF Flushers, Signals
  <2>2. place \notin {"flushing", "closing"}
    BY DEF Stopping
  <2>3. at'["cleanup"] = at["cleanup"]
    BY <1>4, <2>1
  <2>4. /\ at["cleanup"] = "idle" => \A s \in Signals : at'[s] = "idle"
        /\ at["cleanup"] = "flush" => \A s \in Signals : at'[s] \in {"idle", "flush"}
    <3>1. at["cleanup"] \in {"idle", "flush"} => f \notin Signals
      BY <1>1 DEF HandoverOK
    <3> QED
      BY <1>1, <1>4, <2>1, <3>1 DEF HandoverOK
  <2>5. env'.audit # "http" => \A g \in Flushers : at'[g] \notin {"flushing", "closing"}
    BY <1>1, <1>2, <1>4, <2>2 DEF HandoverOK
  <2>6. proc' = "exited" => at'["cleanup"] = "persist" \/ \E s \in Signals : at'[s] = "bus"
    BY <1>4, <2>1
  <2> QED
    BY <1>1, <1>2, <2>3, <2>4, <2>5, <2>6 DEF HandoverOK
<1> QED
  BY <1>6, <1>8, <1>9, <1>10, <1>11, <1>12 DEF DaemonInv

\* Stop, the drain and its timeout, the closed server, the exit.
LEMMA ShutdownInv == ASSUME DaemonInv, NEW f \in Flushers, Shutdown(f) PROVE DaemonInv'
<1>1. /\ at \in [Flushers -> Places] /\ shuttingDown \in BOOLEAN
      /\ drainResolve \in Signals \cup {NoStop} /\ (drainResolve # NoStop => shuttingDown)
  BY DEF DaemonInv, TypesOK, StopOK
<1>2. CASE FlushStep(f)
  BY <1>2, FlushStepInv
<1>3. Stop(f) \/ DrainTimesOut(f) \/ ServerClosed(f) \/ Exit(f) => proc # "exited"
  BY DEF Stop, DrainTimesOut, ServerClosed, Exit, Alive, Booting
<1>4. CASE Stop(f)
  <2>1. PICK place \in {"draining", "closing server"} : at' = [at EXCEPT ![f] = place]
    BY <1>4 DEF Stop
  <2>2. place \in Places \ {"idle", "flush", "stop"} /\ place \in Stopping
    BY DEF Places, Stopping
  <2>3. at[f] = "stop" /\ shuttingDown' = TRUE /\ UNCHANGED <<env, proc, ready, req, sinkVars, served>>
    BY <1>4 DEF Stop
  <2>4. f \in Signals
    BY <2>3 DEF DaemonInv, StopOK, Stopping
  <2>5. drainResolve' \in Signals \cup {NoStop} /\ (listening' = listening \/ listening' = FALSE)
    BY <1>1, <1>4, <2>4 DEF Stop
  <2> QED
    BY <1>4, <1>3, <2>1, <2>3, <2>4, <2>5, <2>2, LaterStep
<1>5. CASE DrainTimesOut(f)
  <2>1. /\ at[f] = "draining" /\ at' = [at EXCEPT ![f] = "closing server"] /\ listening' = FALSE
        /\ UNCHANGED <<env, proc, ready, shuttingDown, drainResolve, req, sinkVars, served>>
    BY <1>5 DEF DrainTimesOut
  <2>2. "closing server" \in Places \ {"idle", "flush", "stop"} /\ "closing server" \in Stopping
    BY DEF Places, Stopping
  <2>3. f \in Signals
    BY <2>1 DEF DaemonInv, StopOK, Stopping
  <2> QED
    BY <1>1, <1>5, <1>3, <2>1, <2>2, <2>3, LaterStep
<1>6. CASE ServerClosed(f)
  <2>1. /\ at[f] = "closing server" /\ at' = [at EXCEPT ![f] = "bus"]
        /\ shuttingDown' = FALSE /\ drainResolve' = NoStop
        /\ UNCHANGED <<env, proc, listening, ready, req, sinkVars, served>>
    BY <1>6 DEF ServerClosed
  <2>2. "bus" \in Places \ {"idle", "flush", "stop"} /\ "bus" \in Stopping
    BY DEF Places, Stopping
  <2>3. f \in Signals
    BY <2>1 DEF DaemonInv, StopOK, Stopping
  <2> QED
    BY <1>6, <1>3, <2>1, <2>2, <2>3, LaterStep
<1>7. CASE Exit(f)
  <2>1. /\ at[f] \in {"bus", "persist"} /\ proc' = "exited"
        /\ UNCHANGED <<env, listening, ready, shuttingDown, drainResolve, req, at, sinkVars, served>>
    BY <1>7 DEF Exit, serverVars
  <2>2. at[f] \in Places \ {"idle", "flush", "stop"} /\ at' = [at EXCEPT ![f] = at[f]]
    BY <1>1, <2>1
  <2>3. (f = "cleanup" /\ at[f] = "persist") \/ (f \in Signals /\ at[f] = "bus")
    BY <2>1 DEF DaemonInv, StopOK, Stopping
  <2> QED
    BY <1>1, <1>7, <1>3, <2>1, <2>2, <2>3, LaterStep
<1> QED
  BY <1>2, <1>4, <1>5, <1>6, <1>7 DEF Shutdown

\* Every step, by its lemma.
LEMMA DaemonNextInv == DaemonInv /\ [DaemonNext]_daemonVars => DaemonInv'
<1>1. ASSUME DaemonInv, DaemonNext PROVE DaemonInv'
  <2>1. ASSUME NEW r \in Requests, BodyTooLarge(r) \/ RequestTimesOut(r) PROVE DaemonInv'
    BY <1>1, <2>1, RefusedInv DEF BodyTooLarge, RequestTimesOut
  <2> QED
    BY <1>1, <2>1, BootInv, SignalInv, ShutdownInv, ArriveInv, BodyEndsInv, HandleInv DEF DaemonNext
<1>2. ASSUME DaemonInv, UNCHANGED daemonVars PROVE DaemonInv'
  <2>1. TypesOK /\ RequestsOK /\ GateOK /\ StopOK /\ AuditOK /\ HandoverOK /\ ServedIsPermitted
    BY <1>2 DEF DaemonInv
  <2>2. UNCHANGED <<env, proc, listening, ready, shuttingDown, drainResolve, req, at, buffered,
                    sending, auditFailed, served>>
    BY <1>2 DEF daemonVars
  <2>3. /\ TypesOK' /\ RequestsOK' /\ GateOK' /\ StopOK' /\ AuditOK'
        /\ HandoverOK' /\ ServedIsPermitted'
    BY <2>1, <2>2, RequestsKept, GateKept, AuditKept, HandoverKept, ServedKept DEF TypesOK, StopOK
  <2> QED
    BY <2>3 DEF DaemonInv
<1> QED
  BY <1>1, <1>2

\* The invariant holds throughout.
LEMMA DaemonInvariance == DaemonSpec => []DaemonInv
BY DaemonInitInv, DaemonNextInv, PTL DEF DaemonSpec
-----------------------------------------------------------------------------
(* What is proved of the daemon *)

\* A stop that waits to be resolved, a POST that waits for its answer and the
\* open sockets belong to a process in that phase.
LEMMA DaemonInvTypes == DaemonInv => DaemonTypeOK
BY DEF DaemonInv, TypesOK, RequestsOK, StopOK, DaemonTypeOK, Phases

\* They do throughout.
THEOREM DaemonTypeCorrect == DaemonSpec => []DaemonTypeOK
BY DaemonInvTypes, DaemonInvariance, PTL

\* For every environment, every token and every URL: a daemon that is not open
\* answered 200 only to a request whose token entitles it to that handler, and
\* an enterprise daemon that answers runs a valid policy and a durable audit
\* sink, and is open only when its issuer came without audience, key and
\* requireAuth.
THEOREM ServesPermitted == DaemonSpec => []ServedIsPermitted
<1>1. DaemonInv => ServedIsPermitted
  BY DEF DaemonInv
<1> QED
  BY <1>1, DaemonInvariance, PTL

\* Whichever of the two shutdowns ends the process, and however a second
\* signal, requests and POSTs interleave with them: unless a flush failed, an
\* audit event of before the first signal is stored or answered for, or it was
\* in cleanup's POST when a gracefulStop ended the process.
THEOREM AuditSurvives == DaemonSpec => []ShutdownKeepsAudit
<1>1. DaemonInv => ShutdownKeepsAudit
  BY DEF DaemonInv, AuditOK, HandoverOK, StopOK, Flushers, ShutdownKeepsAudit
<1> QED
  BY <1>1, DaemonInvariance, PTL
-----------------------------------------------------------------------------
(* Quotas *)

USE QuotaAssumption

\* How many callers are about x.
CountIn(f, x) == Cardinality({d \in Callers : f[d] = x})
Count(x)      == CountIn(caller, x)

\* What the uses of n callers come to at most, and what is never reached.
Most(n)       == MaxAmount * n
Limit         == (IF highest = 0 THEN 1 ELSE highest) + Most(Cardinality(Callers))

QuotaTypes ==
    /\ hour \in 0..MaxHours
    /\ override \subseteq {DefaultQuota} \cup Overrides
    /\ override = {} \/ \E q \in override : override = {q}
    /\ usage \in [QuotaAction -> Int] /\ actual \in [QuotaAction -> Int]
    /\ lastHour \in 0..hour \cup {Undefined} /\ lastDay \in 0..Day(hour) \cup {Undefined}
    /\ forgottenAt \in 0..hour \cup {Undefined}
    /\ caller \in [Callers -> QuotaAction \cup {"idle", "running"}]
    /\ held \in [Callers -> Nat]
    /\ uses \in 0..MaxUses /\ highest \in Nat

HighestOK == DefaultQuota <= highest /\ \A q \in override : q <= highest

\* What is used and what is granted together: a check is only passed below
\* the limit, and all the callers may pass it before one records.
BoundOK == \A a \in QuotaAction : usage[a] + Most(Count(a)) < Limit

SavedOK ==
    file.stored =>
        /\ file.quota \in {DefaultQuota} \cup Overrides /\ file.quota <= highest
        /\ file.usage \in [QuotaAction -> Int]
        /\ \A a \in QuotaAction : file.usage[a] < Limit

\* A manager without boundaries has used nothing.
FreshOK ==
    /\ lastHour = Undefined => usage["tool"] = 0
    /\ lastDay = Undefined => usage["token"] = 0

QuotaInv == QuotaTypes /\ HighestOK /\ BoundOK /\ SavedOK /\ FreshOK /\ UsageExact

\* Days follow the hours.
LEMMA Days ==
    ASSUME NEW h \in Nat
    PROVE  Day(h) \in Nat /\ Day(h) <= h /\ Day(h) <= Day(h + 1)
<1>1. ASSUME NEW n \in Nat \ {0} PROVE h \div n \in Nat /\ h \div n <= h
  OBVIOUS
<1>2. ASSUME NEW n \in Nat \ {0} PROVE h \div n <= (h + 1) \div n
  OBVIOUS
<1> QED
  BY <1>1, <1>2 DEF Day

\* Counting callers.
LEMMA Counts ==
    ASSUME NEW f, NEW x
    PROVE  CountIn(f, x) \in Nat /\ CountIn(f, x) <= Cardinality(Callers) /\ Cardinality(Callers) \in Nat
<1>1. {d \in Callers : f[d] = x} \subseteq Callers
  OBVIOUS
<1> QED
  BY <1>1, FS_Subset, FS_CardinalityType DEF CountIn

\* A caller goes from one thing to another.
Turns(f, g, c, from, to) ==
    from # to /\ f[c] = from /\ g[c] = to /\ \A d \in Callers \ {c} : g[d] = f[d]

\* It is one more of those, and one less of these; the others stay.
LEMMA CallerMoves ==
    ASSUME NEW c \in Callers, NEW from, NEW to, NEW f, NEW g, Turns(f, g, c, from, to)
    PROVE  /\ CountIn(g, to) = CountIn(f, to) + 1
           /\ CountIn(f, from) = CountIn(g, from) + 1
           /\ \A x : x # to /\ x # from => CountIn(g, x) = CountIn(f, x)
<1> DEFINE From(x) == {d \in Callers : f[d] = x}
           To(x)   == {d \in Callers : g[d] = x}
<1>1. from # to /\ f[c] = from /\ g[c] = to /\ \A d \in Callers \ {c} : g[d] = f[d]
  BY DEF Turns
<1>2. To(to) = From(to) \cup {c} /\ c \notin From(to)
  BY <1>1
<1>3. From(from) = To(from) \cup {c} /\ c \notin To(from)
  BY <1>1
<1>4. \A x : x # to /\ x # from => To(x) = From(x)
  BY <1>1
<1>5. \A x : IsFiniteSet(From(x)) /\ IsFiniteSet(To(x))
  BY FS_Subset
<1>6. Cardinality(To(to)) = Cardinality(From(to)) + 1
  <2> HIDE DEF From, To
  <2>1. IsFiniteSet(From(to))
    BY <1>5
  <2>2. Cardinality(From(to) \cup {c}) = Cardinality(From(to)) + 1
    BY <1>2, <2>1, FS_AddElement
  <2> QED
    BY <1>2, <2>2
<1>7. Cardinality(From(from)) = Cardinality(To(from)) + 1
  <2> HIDE DEF From, To
  <2>1. IsFiniteSet(To(from))
    BY <1>5
  <2>2. Cardinality(To(from) \cup {c}) = Cardinality(To(from)) + 1
    BY <1>3, <2>1, FS_AddElement
  <2> QED
    BY <1>3, <2>2
<1> QED
  BY <1>4, <1>6, <1>7 DEF CountIn

\* The most that callers use grows with each of them.
LEMMA Mosts ==
    ASSUME NEW n \in Nat, NEW k \in Nat
    PROVE  /\ Most(n) \in Nat /\ Most(0) = 0 /\ Most(n + 1) = Most(n) + MaxAmount
           /\ k <= n => Most(k) <= Most(n)
<1>1. MaxAmount \in Nat
  OBVIOUS
<1>2. ASSUME NEW m \in Nat
      PROVE  m * n \in Nat /\ m * 0 = 0 /\ m * (n + 1) = m * n + m /\ (k <= n => m * k <= m * n)
  <2>1. m * n \in Nat /\ m * 0 = 0 /\ m * (n + 1) = m * n + m
    OBVIOUS
  <2>2. ASSUME k <= n PROVE m * k <= m * n
    <3>1. PICK d \in Nat : n = k + d
      <4>1. n - k \in Nat /\ n = k + (n - k)
        BY <2>2
      <4> QED
        BY <4>1
    <3>2. m * n = m * k + m * d /\ m * k \in Nat /\ m * d \in Nat
      BY <3>1
    <3> QED
      BY <3>2
  <2> QED
    BY <2>1, <2>2
<1> QED
  BY <1>1, <1>2 DEF Most

\* All that granted uses may still add is below the limit.
LEMMA GrantedFits ==
    ASSUME QuotaTypes, NEW f, NEW x
    PROVE  /\ Most(CountIn(f, x)) \in Nat /\ Most(CountIn(f, x)) < Limit
           /\ highest + Most(CountIn(f, x)) <= Limit /\ Limit \in Nat
<1>1. /\ CountIn(f, x) \in Nat /\ CountIn(f, x) <= Cardinality(Callers) /\ Cardinality(Callers) \in Nat
  BY Counts
<1>2. Most(CountIn(f, x)) \in Nat
  BY <1>1, Mosts
<1>3. Most(Cardinality(Callers)) \in Nat /\ Most(CountIn(f, x)) <= Most(Cardinality(Callers))
  BY <1>1, Mosts
<1>4. highest \in Nat
  BY DEF QuotaTypes
<1> QED
  BY <1>2, <1>3, <1>4 DEF Limit

\* _autoResetIfStale leaves a usage or sets it to nothing, and leaves tasks
\* and storage alone.
LEMMA ResetLess ==
    ASSUME QuotaTypes
    PROVE  /\ AutoReset(usage) \in [QuotaAction -> Int]
           /\ \A a \in QuotaAction : AutoReset(usage)[a] \in {0, usage[a]}
           /\ AutoReset(usage)["task"] = usage["task"] /\ AutoReset(usage)["storage"] = usage["storage"]
<1>1. usage \in [QuotaAction -> Int]
  BY DEF QuotaTypes
<1>2. \A a \in QuotaAction : AutoReset(usage)[a] \in {0, usage[a]}
  BY DEF AutoReset
<1>3. AutoReset(usage)["task"] = usage["task"] /\ AutoReset(usage)["storage"] = usage["storage"]
  BY DEF AutoReset, QuotaAction
<1>4. DOMAIN AutoReset(usage) = QuotaAction /\ AutoReset(usage) = [a \in QuotaAction |-> AutoReset(usage)[a]]
  BY DEF AutoReset
<1> QED
  BY <1>1, <1>2, <1>3, <1>4

\* After an operation the boundaries are those of now: nothing is stale.
LEMMA NotStale ==
    ASSUME QuotaTypes, Boundaries, UNCHANGED hour, usage' \in [QuotaAction -> Int]
    PROVE  /\ \A a \in QuotaAction : AutoReset(usage)'[a] = usage'[a]
           /\ lastHour' \in 0..hour' \cup {Undefined} /\ lastDay' \in 0..Day(hour)' \cup {Undefined}
           /\ lastHour' # Undefined /\ lastDay' # Undefined
<1>1. hour \in Nat /\ hour <= MaxHours
  BY DEF QuotaTypes
<1>2. Day(hour) \in Nat /\ Day(hour) <= hour
  BY <1>1, Days
<1>3. lastHour' = hour /\ lastDay' = Day(hour) /\ Day(hour)' = Day(hour)
  BY DEF Boundaries, Day
<1>4. ~(hour' > lastHour') /\ ~(Day(hour)' > lastDay')
  BY <1>1, <1>2, <1>3
<1>5. \A a \in QuotaAction : AutoReset(usage)'[a] = usage'[a]
  BY <1>4 DEF AutoReset
<1> QED
  BY <1>1, <1>2, <1>3, <1>5 DEF Undefined

\* An operation that counts what is really used keeps the usage exact.
LEMMA ExactAfter ==
    ASSUME QuotaInv, Boundaries, UNCHANGED <<hour, forgottenAt>>, usage' \in [QuotaAction -> Int],
           \A x \in QuotaAction : AutoReset(usage)[x] = actual[x] => usage'[x] = actual'[x]
    PROVE  UsageExact' /\ FreshOK'
<1>1. /\ \A a \in QuotaAction : AutoReset(usage)'[a] = usage'[a]
      /\ lastHour' # Undefined /\ lastDay' # Undefined
  BY NotStale DEF QuotaInv
<1>2. UsageExact
  BY DEF QuotaInv
<1>3. Undefined' = Undefined /\ Day(forgottenAt)' = Day(forgottenAt) /\ Day(hour)' = Day(hour)
  BY DEF Undefined, Day
<1>4. UsageExact'
  BY <1>1, <1>2, <1>3 DEF UsageExact, QuotaAction
<1> QED
  BY <1>1, <1>4 DEF FreshOK, Undefined

\* The limits in force never exceed the highest there were.
LEMMA QuotaInForce ==
    ASSUME QuotaTypes, HighestOK
    PROVE  getQuota \in {DefaultQuota} \cup Overrides /\ getQuota \in Nat /\ getQuota <= highest
BY DEF QuotaTypes, HighestOK, getQuota

\* What QuotaInv says of the bounds after a reset, with the types that
\* arithmetic needs.
LEMMA Bounds ==
    ASSUME QuotaInv, NEW a \in QuotaAction
    PROVE  /\ usage[a] \in Int /\ AutoReset(usage)[a] \in Int /\ Most(Count(a)) \in Nat /\ Limit \in Nat
           /\ usage[a] + Most(Count(a)) < Limit
           /\ AutoReset(usage)[a] + Most(Count(a)) < Limit
<1>1. QuotaTypes /\ usage[a] + Most(Count(a)) < Limit
  BY DEF QuotaInv, BoundOK
<1>2. usage[a] \in Int
  BY <1>1 DEF QuotaTypes
<1>3. AutoReset(usage)[a] \in {0, usage[a]} /\ AutoReset(usage)[a] \in Int
  BY <1>1, ResetLess
<1>4. Most(Count(a)) \in Nat /\ Most(Count(a)) < Limit /\ Limit \in Nat
  BY <1>1, GrantedFits DEF Count
<1> QED
  BY <1>1, <1>2, <1>3, <1>4

\* An operation that only resets, and changes neither limits nor callers.
LEMMA ResetStep ==
    ASSUME QuotaInv, usage' = AutoReset(usage), Boundaries,
           UNCHANGED <<hour, override, actual, forgottenAt, highest, caller, held, uses>>
    PROVE  QuotaTypes' /\ HighestOK' /\ BoundOK' /\ FreshOK' /\ UsageExact'
<1>1. usage' \in [QuotaAction -> Int]
  BY ResetLess DEF QuotaInv
<1>2. UsageExact' /\ FreshOK'
  BY <1>1, ExactAfter
<1>3. QuotaTypes' /\ HighestOK'
  BY <1>1, NotStale DEF QuotaInv, QuotaTypes, HighestOK, Undefined
<1>4. Limit' = Limit /\ \A x : Most(Count(x))' = Most(Count(x))
  BY DEF Limit, Count, Most
<1>5. BoundOK'
  BY <1>4, Bounds DEF BoundOK
<1> QED
  BY <1>2, <1>3, <1>5

\* A check that is passed: below the limit, and the caller is one of Callers.
LEMMA CheckInv ==
    ASSUME QuotaInv, NEW c \in Callers, NEW a \in QuotaAction, checkQuota(c, a)
    PROVE  QuotaInv'
<1>1. /\ caller[c] = "idle" /\ uses < MaxUses /\ usage' = AutoReset(usage) /\ Boundaries
      /\ UNCHANGED <<hour, override, file, held, actual, forgottenAt, highest>>
  BY DEF checkQuota
<1>2. QuotaTypes
  BY DEF QuotaInv
<1>3. Limit' = Limit
  BY <1>1 DEF Limit, Most
<1>4. SavedOK'
  BY <1>1, <1>3 DEF QuotaInv, SavedOK
<1>5. CASE UNCHANGED <<caller, uses>>
  <2>1. QuotaTypes' /\ HighestOK' /\ BoundOK' /\ FreshOK' /\ UsageExact'
    BY <1>1, <1>5, ResetStep
  <2> QED
    BY <1>4, <2>1 DEF QuotaInv
<1>6. CASE usage'[a] < getQuota /\ caller' = [caller EXCEPT ![c] = a] /\ uses' = uses + 1
  <2>1. usage' \in [QuotaAction -> Int]
    BY <1>1, <1>2, ResetLess
  <2>2. caller \in [Callers -> QuotaAction \cup {"idle", "running"}] /\ uses \in 0..MaxUses
    BY <1>2 DEF QuotaTypes
  <2>3. caller' \in [Callers -> QuotaAction \cup {"idle", "running"}] /\ uses' \in 0..MaxUses
    BY <1>1, <1>6, <2>2
  <2>4. a # "idle"
    BY DEF QuotaAction
  <2>5. \A x : x # a /\ x # "idle" => Count(x)' = Count(x)
    <3>1. Turns(caller, caller', c, "idle", a)
      BY <1>1, <1>6, <2>2, <2>4 DEF Turns
    <3>2. \A x : x # a /\ x # "idle" => CountIn(caller', x) = CountIn(caller, x)
      BY <3>1, CallerMoves
    <3> QED
      BY <3>2 DEF Count, CountIn
  <2>6. getQuota \in Nat /\ getQuota <= highest
    BY QuotaInForce DEF QuotaInv
  <2>7. ASSUME NEW x \in QuotaAction PROVE usage'[x] + Most(Count(x))' < Limit'
    <3>1. CASE x = a
      <4>1. /\ Most(CountIn(caller', a)) \in Nat /\ highest + Most(CountIn(caller', a)) <= Limit
            /\ Limit \in Nat
        BY <1>2, GrantedFits
      <4>2. Most(Count(a))' = Most(CountIn(caller', a))
        BY DEF Most, Count, CountIn
      <4>3. usage'[a] \in Int /\ highest \in Nat /\ usage'[a] < highest
        <5>1. usage'[a] \in Int /\ highest \in Nat
          BY <1>2, <2>1 DEF QuotaTypes
        <5> QED
          BY <1>6, <2>6, <5>1
      <4> QED
        BY <1>3, <3>1, <4>1, <4>2, <4>3
    <3>2. CASE x # a
      <4>1. Count(x)' = Count(x)
        BY <2>5, <3>2 DEF QuotaAction
      <4>2. Most(Count(x))' = Most(Count(x))
        BY <4>1 DEF Most
      <4> QED
        BY <1>1, <1>3, <4>2, Bounds
    <3> QED
      BY <3>1, <3>2
  <2>8. BoundOK'
    BY <2>7 DEF BoundOK
  <2>9. UsageExact' /\ FreshOK'
    BY <1>1, <2>1, ExactAfter
  <2>10. QuotaTypes' /\ HighestOK'
    BY <1>1, <2>1, <2>3, NotStale DEF QuotaInv, QuotaTypes, HighestOK, Undefined
  <2> QED
    BY <1>4, <2>8, <2>9, <2>10 DEF QuotaInv
<1>7. (usage'[a] >= getQuota) \/ usage'[a] < getQuota
  <2>1. usage' \in [QuotaAction -> Int]
    BY <1>1, <1>2, ResetLess
  <2>2. getQuota \in Nat
    BY QuotaInForce DEF QuotaInv
  <2> QED
    BY <2>1, <2>2
<1> QED
  BY <1>5, <1>6, <1>7 DEF checkQuota

\* A use is recorded: of what was granted, no more than MaxAmount.
LEMMA RecordInv ==
    ASSUME QuotaInv, NEW c \in Callers, NEW n \in Amounts, recordUsage(c, n)
    PROVE  QuotaInv'
<1> DEFINE R == AutoReset(usage)
<1>1. PICK a \in QuotaAction : caller[c] = a
  BY DEF recordUsage
<1> DEFINE to == IF a = "task" THEN "running" ELSE "idle"
           h  == IF a = "task" THEN n ELSE 0
<1>2. /\ usage' = [R EXCEPT ![a] = R[a] + n]
      /\ actual' = [actual EXCEPT ![a] = actual[a] + n]
      /\ held' = [held EXCEPT ![c] = h]
      /\ caller' = [caller EXCEPT ![c] = to]
      /\ a = "task" => n >= 0
      /\ Boundaries
      /\ UNCHANGED <<hour, override, file, forgottenAt, highest, uses>>
  BY <1>1 DEF recordUsage
<1>3. QuotaTypes
  BY DEF QuotaInv
<1>4. R \in [QuotaAction -> Int]
  BY <1>3, ResetLess
<1>5. n \in Int /\ n <= MaxAmount /\ MaxAmount \in Nat /\ h \in Nat
  BY <1>2
<1> HIDE DEF R, h
<1>6. /\ caller \in [Callers -> QuotaAction \cup {"idle", "running"}]
      /\ actual \in [QuotaAction -> Int] /\ held \in [Callers -> Nat]
  BY <1>3 DEF QuotaTypes
<1>7. /\ usage' \in [QuotaAction -> Int] /\ usage'[a] = R[a] + n
      /\ \A x \in QuotaAction \ {a} : usage'[x] = R[x]
  BY <1>2, <1>4, <1>5
<1>8. /\ actual' \in [QuotaAction -> Int] /\ actual'[a] = actual[a] + n
      /\ \A x \in QuotaAction \ {a} : actual'[x] = actual[x]
  BY <1>2, <1>5, <1>6
<1>9. a # "idle" /\ a # "running" /\ to # a
  BY DEF QuotaAction
<1>10. /\ Count(a) = Count(a)' + 1
       /\ \A x : x # to /\ x # a => Count(x)' = Count(x)
  <2> HIDE DEF to
  <2>1. Turns(caller, caller', c, a, to)
    BY <1>1, <1>2, <1>6, <1>9 DEF Turns
  <2>2. /\ CountIn(caller, a) = CountIn(caller', a) + 1
        /\ \A x : x # to /\ x # a => CountIn(caller', x) = CountIn(caller, x)
    BY <2>1, CallerMoves
  <2> QED
    BY <2>2 DEF Count, CountIn
<1>11. Limit' = Limit
  BY <1>2 DEF Limit, Most
<1>12. ASSUME NEW x \in QuotaAction PROVE usage'[x] + Most(Count(x))' < Limit'
  <2>1. R[x] \in Int /\ Most(Count(x)) \in Nat /\ Limit \in Nat /\ R[x] + Most(Count(x)) < Limit
    BY Bounds DEF R
  <2>2. CASE x = a
    <3>1. CountIn(caller', a) \in Nat /\ Count(a) = CountIn(caller', a) + 1
      <4>1. Count(a) = Count(a)' + 1
        BY <1>10
      <4>2. Count(a)' = CountIn(caller', a)
        BY DEF Count, CountIn
      <4>3. CountIn(caller', a) \in Nat
        BY Counts
      <4> QED
        BY <4>1, <4>2, <4>3
    <3>2. /\ Most(CountIn(caller', a)) \in Nat
          /\ Most(CountIn(caller', a) + 1) = Most(CountIn(caller', a)) + MaxAmount
      BY <3>1, Mosts
    <3>3. Most(Count(a)) = Most(CountIn(caller', a)) + MaxAmount
      BY <3>1, <3>2
    <3>4. Most(Count(a))' = Most(CountIn(caller', a))
      BY DEF Most, Count, CountIn
    <3> QED
      BY <1>5, <1>7, <1>11, <2>1, <2>2, <3>2, <3>3, <3>4
  <2>3. CASE x # a
    <3>1. Count(x)' = Count(x)
      BY <1>10, <2>3 DEF QuotaAction
    <3>2. Most(Count(x))' = Most(Count(x))
      BY <3>1 DEF Most
    <3> QED
      BY <1>7, <1>11, <2>1, <2>3, <3>2
  <2> QED
    BY <2>2, <2>3
<1>13. BoundOK'
  BY <1>12 DEF BoundOK
<1>14. UsageExact' /\ FreshOK'
  <2>1. \A x \in QuotaAction : AutoReset(usage)[x] = actual[x] => usage'[x] = actual'[x]
    BY <1>7, <1>8 DEF R
  <2> QED
    BY <1>2, <1>7, <2>1, ExactAfter
<1>15. caller' \in [Callers -> QuotaAction \cup {"idle", "running"}] /\ held' \in [Callers -> Nat]
  BY <1>2, <1>5, <1>6
<1>16. QuotaTypes' /\ HighestOK'
  BY <1>2, <1>7, <1>8, <1>15, NotStale DEF QuotaInv, QuotaTypes, HighestOK, Undefined
<1>17. SavedOK'
  BY <1>2, <1>11 DEF QuotaInv, SavedOK
<1> QED
  BY <1>13, <1>14, <1>16, <1>17 DEF QuotaInv

\* A task ends, and gives back what it held.
LEMMA ReleaseInv ==
    ASSUME QuotaInv, NEW c \in Callers, Release(c)
    PROVE  QuotaInv'
<1> DEFINE R == AutoReset(usage)
<1>1. PICK h : h = held[c]
  OBVIOUS
<1>2. /\ caller[c] = "running"
      /\ usage' = [R EXCEPT !["task"] = R["task"] - h]
      /\ actual' = [actual EXCEPT !["task"] = actual["task"] - h]
      /\ held' = [held EXCEPT ![c] = 0]
      /\ caller' = [caller EXCEPT ![c] = "idle"]
      /\ Boundaries
      /\ UNCHANGED <<hour, override, file, forgottenAt, highest, uses>>
  BY <1>1 DEF Release
<1>3. QuotaTypes
  BY DEF QuotaInv
<1>4. R \in [QuotaAction -> Int]
  BY <1>3, ResetLess
<1> HIDE DEF R
<1>5. /\ caller \in [Callers -> QuotaAction \cup {"idle", "running"}]
      /\ actual \in [QuotaAction -> Int] /\ held \in [Callers -> Nat] /\ "task" \in QuotaAction
  BY <1>3 DEF QuotaTypes, QuotaAction
<1>6. h \in Nat
  BY <1>1, <1>5
<1>7. \A x : x # "idle" /\ x # "running" => Count(x)' = Count(x)
  <2>1. Turns(caller, caller', c, "running", "idle")
    BY <1>2, <1>5 DEF Turns
  <2>2. \A x : x # "idle" /\ x # "running" => CountIn(caller', x) = CountIn(caller, x)
    BY <2>1, CallerMoves
  <2> QED
    BY <2>2 DEF Count, CountIn
<1>8. /\ usage' \in [QuotaAction -> Int] /\ usage'["task"] = R["task"] - h
      /\ \A x \in QuotaAction \ {"task"} : usage'[x] = R[x]
  BY <1>2, <1>4, <1>5, <1>6
<1>9. /\ actual' \in [QuotaAction -> Int] /\ actual'["task"] = actual["task"] - h
      /\ \A x \in QuotaAction \ {"task"} : actual'[x] = actual[x]
  BY <1>2, <1>5, <1>6
<1>10. Limit' = Limit
  BY <1>2 DEF Limit, Most
<1>11. ASSUME NEW x \in QuotaAction PROVE usage'[x] + Most(Count(x))' < Limit'
  <2>1. R[x] \in Int /\ Most(Count(x)) \in Nat /\ Limit \in Nat /\ R[x] + Most(Count(x)) < Limit
    BY Bounds DEF R
  <2>2. Count(x)' = Count(x)
    BY <1>7 DEF QuotaAction
  <2>3. Most(Count(x))' = Most(Count(x))
    BY <2>2 DEF Most
  <2>4. usage'[x] \in Int /\ usage'[x] <= R[x]
    BY <1>6, <1>8, <2>1
  <2> QED
    BY <1>10, <2>1, <2>3, <2>4
<1>12. BoundOK'
  BY <1>11 DEF BoundOK
<1>13. UsageExact' /\ FreshOK'
  <2>1. \A x \in QuotaAction : AutoReset(usage)[x] = actual[x] => usage'[x] = actual'[x]
    BY <1>8, <1>9 DEF R
  <2> QED
    BY <1>2, <1>8, <2>1, ExactAfter
<1>14. caller' \in [Callers -> QuotaAction \cup {"idle", "running"}] /\ held' \in [Callers -> Nat]
  BY <1>2, <1>5
<1>15. QuotaTypes' /\ HighestOK'
  BY <1>2, <1>8, <1>9, <1>14, NotStale DEF QuotaInv, QuotaTypes, HighestOK, Undefined
<1>16. SavedOK'
  BY <1>2, <1>10 DEF QuotaInv, SavedOK
<1> QED
  BY <1>12, <1>13, <1>15, <1>16 DEF QuotaInv

\* A saved state is a state of the manager.
LEMMA SaveInv == ASSUME QuotaInv, save PROVE QuotaInv'
<1>1. /\ usage' = AutoReset(usage) /\ Boundaries
      /\ UNCHANGED <<hour, override, actual, forgottenAt, highest, caller, held, uses>>
      /\ file' = file \/ file' = [stored |-> TRUE, quota |-> getQuota, usage |-> usage']
  BY DEF save
<1>2. QuotaTypes' /\ HighestOK' /\ BoundOK' /\ FreshOK' /\ UsageExact'
  BY <1>1, ResetStep
<1>3. SavedOK'
  <2>1. Limit' = Limit
    BY <1>1 DEF Limit, Most
  <2>2. CASE file' = file
    BY <1>1, <2>1, <2>2 DEF QuotaInv, SavedOK
  <2>3. CASE file' = [stored |-> TRUE, quota |-> getQuota, usage |-> usage']
    <3>1. file'.quota = getQuota /\ file'.usage = usage'
      BY <2>3
    <3>2. getQuota \in {DefaultQuota} \cup Overrides /\ getQuota <= highest'
      BY <1>1, QuotaInForce DEF QuotaInv
    <3>3. usage' \in [QuotaAction -> Int]
      BY <1>1, ResetLess DEF QuotaInv
    <3>4. ASSUME NEW a \in QuotaAction PROVE usage'[a] < Limit'
      BY <1>1, <2>1, Bounds
    <3> QED
      BY <3>1, <3>2, <3>3, <3>4 DEF SavedOK
  <2> QED
    BY <1>1, <2>2, <2>3
<1> QED
  BY <1>2, <1>3 DEF QuotaInv

\* A higher limit, or a lower one.
LEMMA SetQuotaInv == ASSUME QuotaInv, NEW q \in Overrides, setQuota(q) PROVE QuotaInv'
<1>1. /\ override' = {q} /\ highest' = (IF q > highest THEN q ELSE highest)
      /\ UNCHANGED <<hour, usage, lastHour, lastDay, file, caller, held, actual, forgottenAt, uses>>
  BY DEF setQuota
<1>2. highest \in Nat /\ q \in Nat /\ DefaultQuota <= highest
  BY DEF QuotaInv, QuotaTypes, HighestOK
<1>3. highest' \in Nat /\ highest <= highest' /\ q <= highest' /\ DefaultQuota <= highest'
  BY <1>1, <1>2
<1>4. Limit \in Nat /\ Limit' \in Nat /\ Limit <= Limit'
  <2>1. Most(Cardinality(Callers)) \in Nat /\ Most(Cardinality(Callers))' = Most(Cardinality(Callers))
    BY FS_CardinalityType, Mosts DEF Most
  <2> QED
    BY <1>2, <1>3, <2>1 DEF Limit
<1>5. \A x : Most(Count(x))' = Most(Count(x))
  BY <1>1 DEF Count, CountIn, Most
<1>6. ASSUME NEW a \in QuotaAction PROVE usage'[a] + Most(Count(a))' < Limit'
  BY <1>1, <1>4, <1>5, Bounds
<1>7. BoundOK'
  BY <1>6 DEF BoundOK
<1>8. QuotaTypes' /\ HighestOK'
  BY <1>1, <1>3 DEF QuotaInv, QuotaTypes, HighestOK, Undefined, Day
<1>9. SavedOK'
  <2>1. SUFFICES ASSUME file.stored
                 PROVE  /\ file.quota \in {DefaultQuota} \cup Overrides /\ file.quota <= highest'
                        /\ file.usage \in [QuotaAction -> Int]
                        /\ \A a \in QuotaAction : file.usage[a] < Limit'
    BY <1>1 DEF SavedOK
  <2>2. /\ file.quota \in {DefaultQuota} \cup Overrides /\ file.quota <= highest
        /\ file.usage \in [QuotaAction -> Int]
        /\ \A a \in QuotaAction : file.usage[a] < Limit
    BY <2>1 DEF QuotaInv, SavedOK
  <2>3. file.quota \in Nat /\ file.quota <= highest'
    <3>1. \A n \in {DefaultQuota} \cup Overrides : n \in Nat
      OBVIOUS
    <3>2. file.quota \in Nat
      BY <2>2, <3>1
    <3>3. \A n \in Nat : n <= highest => n <= highest'
      BY <1>2, <1>3
    <3> QED
      BY <2>2, <3>2, <3>3
  <2>4. ASSUME NEW a \in QuotaAction PROVE file.usage[a] < Limit'
    <3>1. file.usage[a] \in Int
      BY <2>2
    <3> QED
      BY <1>1, <1>4, <2>2, <3>1
  <2> QED
    BY <2>2, <2>3, <2>4
<1>10. FreshOK' /\ UsageExact'
  BY <1>1 DEF QuotaInv, FreshOK, UsageExact, AutoReset, Undefined, Day
<1> QED
  BY <1>7, <1>8, <1>9, <1>10 DEF QuotaInv

\* Everything a fresh manager says, whatever its callers are about.
LEMMA FreshManager ==
    ASSUME QuotaInv, usage' = Zero, UNCHANGED <<hour, file, highest, uses>>,
           actual' \in [QuotaAction -> Int], held' \in [Callers -> Nat],
           caller' \in [Callers -> QuotaAction \cup {"idle", "running"}],
           override' = {}, lastHour' = Undefined, lastDay' = Undefined, forgottenAt' = hour
    PROVE  QuotaInv'
<1>1. usage' \in [QuotaAction -> Int] /\ \A a \in QuotaAction : usage'[a] = 0
  BY DEF Zero
<1>2. QuotaTypes
  BY DEF QuotaInv
<1>3. Limit' = Limit
  BY DEF Limit, Most
<1>4. ASSUME NEW a \in QuotaAction PROVE usage'[a] + Most(Count(a))' < Limit'
  <2>1. /\ Most(CountIn(caller', a)) \in Nat /\ Most(CountIn(caller', a)) < Limit /\ Limit \in Nat
    BY <1>2, GrantedFits
  <2>2. Most(Count(a))' = Most(CountIn(caller', a))
    BY DEF Most, Count, CountIn
  <2> QED
    BY <1>1, <1>3, <2>1, <2>2
<1>5. BoundOK'
  BY <1>4 DEF BoundOK
<1>6. FreshOK' /\ HighestOK'
  BY <1>1 DEF FreshOK, HighestOK, QuotaInv, QuotaAction
<1>7. SavedOK'
  BY <1>3 DEF QuotaInv, SavedOK
<1>8. QuotaTypes'
  BY <1>1, <1>2 DEF QuotaTypes, Undefined, Day
<1>9. UsageExact'
  <2>1. hour \in 0..MaxHours
    BY <1>2 DEF QuotaTypes
  <2>2. forgottenAt' # Undefined' /\ forgottenAt' = hour'
    BY <2>1 DEF Undefined
  <2> QED
    BY <2>2 DEF UsageExact, Day
<1> QED
  BY <1>5, <1>6, <1>7, <1>8, <1>9 DEF QuotaInv

\* The tenant is removed.
LEMMA RemoveTenantInv == ASSUME QuotaInv, removeTenant PROVE QuotaInv'
<1>1. /\ override' = {} /\ usage' = Zero /\ lastHour' = Undefined /\ lastDay' = Undefined
      /\ forgottenAt' = hour /\ UNCHANGED <<hour, file, caller, held, actual, highest, uses>>
  BY DEF removeTenant, LoseCounts
<1>2. /\ caller \in [Callers -> QuotaAction \cup {"idle", "running"}]
      /\ actual \in [QuotaAction -> Int] /\ held \in [Callers -> Nat]
  BY DEF QuotaInv, QuotaTypes
<1> QED
  BY <1>1, <1>2, FreshManager

\* An hour, and perhaps a day, begins: what is now stale is what is counted anew.
LEMMA HourPassesInv == ASSUME QuotaInv, HourPasses PROVE QuotaInv'
<1>1. /\ hour < MaxHours /\ hour' = hour + 1
      /\ actual' = [actual EXCEPT !["tool"] = 0, !["token"] = IF Day(hour + 1) > Day(hour) THEN 0 ELSE @]
      /\ UNCHANGED <<override, usage, lastHour, lastDay, file, caller, held, forgottenAt, highest, uses>>
  BY DEF HourPasses
<1>2. /\ hour \in Nat /\ hour <= MaxHours /\ usage \in [QuotaAction -> Int] /\ actual \in [QuotaAction -> Int]
      /\ lastHour \in 0..hour \cup {Undefined} /\ lastDay \in 0..Day(hour) \cup {Undefined}
      /\ forgottenAt \in 0..hour \cup {Undefined}
  BY DEF QuotaInv, QuotaTypes
<1>3. /\ Day(hour) \in Nat /\ Day(hour) <= hour
      /\ Day(hour + 1) \in Nat /\ Day(hour) <= Day(hour + 1)
  BY <1>2, Days
<1>4. Undefined' = Undefined /\ Day(hour)' = Day(hour + 1) /\ Day(forgottenAt)' = Day(forgottenAt)
  BY <1>1 DEF Undefined, Day
<1>5. /\ actual' \in [QuotaAction -> Int]
      /\ actual'["tool"] = 0 /\ actual'["task"] = actual["task"] /\ actual'["storage"] = actual["storage"]
      /\ actual'["token"] = (IF Day(hour + 1) > Day(hour) THEN 0 ELSE actual["token"])
  <2>1. /\ DOMAIN actual' = QuotaAction /\ actual' = [a \in QuotaAction |-> actual'[a]]
        /\ actual'["tool"] = 0 /\ actual'["task"] = actual["task"] /\ actual'["storage"] = actual["storage"]
        /\ actual'["token"] = (IF Day(hour + 1) > Day(hour) THEN 0 ELSE actual["token"])
    BY <1>1, <1>2 DEF QuotaAction
  <2>2. \A a \in QuotaAction : actual'[a] = 0 \/ actual'[a] = actual[a]
    BY <2>1 DEF QuotaAction
  <2>3. \A a \in QuotaAction : actual'[a] \in Int
    BY <1>2, <2>2
  <2> QED
    BY <2>1, <2>3
<1>6. Limit' = Limit /\ \A x : Most(Count(x))' = Most(Count(x))
  BY <1>1 DEF Limit, Count, Most
<1>7. ASSUME NEW a \in QuotaAction PROVE usage'[a] + Most(Count(a))' < Limit'
  BY <1>1, <1>6, Bounds
<1>8. BoundOK'
  BY <1>7 DEF BoundOK
<1>9. QuotaTypes'
  <2>1. hour' \in 0..MaxHours
    BY <1>1, <1>2
  <2>2. lastHour' \in 0..hour' \cup {Undefined'} /\ forgottenAt' \in 0..hour' \cup {Undefined'}
    BY <1>1, <1>2, <1>4
  <2>3. lastDay' \in 0..Day(hour)' \cup {Undefined'}
    BY <1>1, <1>2, <1>3, <1>4
  <2> QED
    BY <1>1, <1>2, <1>5, <2>1, <2>2, <2>3 DEF QuotaInv, QuotaTypes
<1>10. HighestOK' /\ FreshOK' /\ SavedOK'
  BY <1>1, <1>4, <1>6 DEF QuotaInv, HighestOK, FreshOK, SavedOK
<1>11. AutoReset(usage)'["task"] = usage["task"] /\ AutoReset(usage)'["storage"] = usage["storage"]
  BY <1>1 DEF AutoReset, QuotaAction
<1>12. AutoReset(usage)'["tool"] = actual'["tool"]
  <2>1. CASE lastHour = Undefined
    BY <1>1, <1>4, <1>5, <2>1 DEF AutoReset, QuotaAction, QuotaInv, FreshOK
  <2>2. CASE lastHour # Undefined
    <3>1. hour' > lastHour'
      BY <1>1, <1>2, <2>2
    <3> QED
      BY <1>1, <1>4, <1>5, <2>2, <3>1 DEF AutoReset, QuotaAction
  <2> QED
    BY <2>1, <2>2
<1>13. CASE Day(hour + 1) > Day(hour)
  <2>1. AutoReset(usage)'["token"] = 0
    <3>1. CASE lastDay = Undefined
      BY <1>1, <1>4, <3>1 DEF AutoReset, QuotaAction, QuotaInv, FreshOK
    <3>2. CASE lastDay # Undefined
      <4>1. Day(hour)' > lastDay'
        BY <1>1, <1>2, <1>3, <1>4, <1>13, <3>2
      <4> QED
        BY <1>1, <1>4, <3>2, <4>1 DEF AutoReset, QuotaAction
    <3> QED
      BY <3>1, <3>2
  <2>2. actual'["token"] = 0
    BY <1>5, <1>13
  <2>3. UsageExact'
    BY <1>1, <1>4, <1>5, <1>11, <1>12, <2>1, <2>2, ResetLess DEF QuotaInv, UsageExact
  <2> QED
    BY <1>8, <1>9, <1>10, <2>3 DEF QuotaInv
<1>14. CASE Day(hour + 1) = Day(hour)
  <2>1. AutoReset(usage)'["token"] = AutoReset(usage)["token"]
    BY <1>1, <1>4, <1>14 DEF AutoReset, QuotaAction
  <2>2. actual'["token"] = actual["token"]
    BY <1>3, <1>5, <1>14
  <2>3. UsageExact'
    BY <1>1, <1>4, <1>5, <1>11, <1>12, <1>14, <2>1, <2>2, ResetLess DEF QuotaInv, UsageExact
  <2> QED
    BY <1>8, <1>9, <1>10, <2>3 DEF QuotaInv
<1> QED
  BY <1>3, <1>13, <1>14

\* A new process counts from what its file says, or from nothing.
LEMMA CrashAndLoadInv == ASSUME QuotaInv, CrashAndLoad PROVE QuotaInv'
<1>1. /\ caller' = [c \in Callers |-> "idle"] /\ held' = [c \in Callers |-> 0]
      /\ actual' = [actual EXCEPT !["task"] = 0]
      /\ forgottenAt' = hour /\ UNCHANGED <<hour, file, highest, uses>>
  BY DEF CrashAndLoad, LoseCounts
<1>2. QuotaTypes /\ hour \in 0..MaxHours /\ actual \in [QuotaAction -> Int]
  BY DEF QuotaInv, QuotaTypes
<1>3. Undefined' = Undefined /\ forgottenAt' # Undefined /\ forgottenAt' \in 0..hour
  BY <1>1, <1>2 DEF Undefined
<1>4. /\ actual' \in [QuotaAction -> Int] /\ held' \in [Callers -> Nat]
      /\ caller' \in [Callers -> QuotaAction \cup {"idle", "running"}]
  <2>1. actual' \in [QuotaAction -> Int]
    <3>1. \A f \in [QuotaAction -> Int] : [f EXCEPT !["task"] = 0] \in [QuotaAction -> Int]
      BY DEF QuotaAction
    <3> QED
      BY <1>1, <1>2, <3>1
  <2>2. held' \in [Callers -> Nat]
    <3>1. held' = [c \in Callers |-> 0]
      BY <1>1
    <3> QED
      BY <3>1
  <2>3. caller' \in [Callers -> QuotaAction \cup {"idle", "running"}]
    BY <1>1
  <2> QED
    BY <2>1, <2>2, <2>3
<1>5. CASE override' = {} /\ usage' = Zero /\ lastHour' = Undefined /\ lastDay' = Undefined
  BY <1>1, <1>4, <1>5, FreshManager
<1>6. CASE file.stored /\ override' = {file.quota} /\ usage' = file.usage /\ Boundaries
  <2>1. /\ file.quota \in {DefaultQuota} \cup Overrides /\ file.quota <= highest
        /\ usage' \in [QuotaAction -> Int]
        /\ \A a \in QuotaAction : usage'[a] < Limit
    BY <1>6 DEF QuotaInv, SavedOK
  <2>2. Limit' = Limit
    BY <1>1 DEF Limit, Most
  <2>3. ASSUME NEW a \in QuotaAction PROVE usage'[a] + Most(Count(a))' < Limit'
    <3>1. {d \in Callers : caller'[d] = a} = {}
      BY <1>1 DEF QuotaAction
    <3>2. Count(a)' = 0
      BY <3>1, FS_EmptySet DEF Count, CountIn
    <3>3. Most(0) = 0
      BY Mosts
    <3>4. Most(Count(a))' = 0
      BY <3>2, <3>3 DEF Most
    <3>5. usage'[a] \in Int
      BY <2>1
    <3> QED
      BY <2>1, <2>2, <3>4, <3>5
  <2>4. BoundOK'
    BY <2>3 DEF BoundOK
  <2>5. FreshOK' /\ lastHour' \in 0..hour' \cup {Undefined} /\ lastDay' \in 0..Day(hour)' \cup {Undefined}
    BY <1>1, <1>2, <1>3, <1>6, <2>1, NotStale DEF FreshOK
  <2>6. HighestOK' /\ SavedOK'
    BY <1>1, <1>6, <2>1, <2>2 DEF QuotaInv, HighestOK, SavedOK
  <2>7. QuotaTypes'
    BY <1>1, <1>2, <1>3, <1>4, <1>6, <2>1, <2>5 DEF QuotaTypes
  <2>8. UsageExact'
    BY <1>1, <1>3 DEF UsageExact, Day
  <2> QED
    BY <2>4, <2>5, <2>6, <2>7, <2>8 DEF QuotaInv
<1> QED
  BY <1>5, <1>6 DEF CrashAndLoad

\* A manager that was just created.
LEMMA QuotaInitInv == ASSUME QuotaInit PROVE QuotaInv
<1>1. /\ hour = 0 /\ override = {} /\ usage = Zero /\ actual = Zero /\ lastHour = Undefined
      /\ lastDay = Undefined /\ file = NoFile /\ caller = [c \in Callers |-> "idle"]
      /\ held = [c \in Callers |-> 0] /\ forgottenAt = Undefined /\ highest = DefaultQuota /\ uses = 0
  BY DEF QuotaInit
<1>2. /\ Zero \in [QuotaAction -> Int] /\ \A a \in QuotaAction : Zero[a] = 0
  BY DEF Zero
<1>3. "tool" \in QuotaAction /\ "token" \in QuotaAction
  BY DEF QuotaAction
<1>4. QuotaTypes
  <2>1. caller \in [Callers -> QuotaAction \cup {"idle", "running"}] /\ held \in [Callers -> Nat]
    BY <1>1
  <2> QED
    BY <1>1, <1>2, <2>1 DEF QuotaTypes
<1>5. BoundOK
  <2>1. ASSUME NEW a \in QuotaAction PROVE usage[a] + Most(Count(a)) < Limit
    <3>1. Most(Count(a)) \in Nat /\ Most(Count(a)) < Limit /\ Limit \in Nat
      BY <1>4, GrantedFits DEF Count
    <3> QED
      BY <1>1, <1>2, <3>1
  <2> QED
    BY <2>1 DEF BoundOK
<1>6. UsageExact
  <2>1. \A a \in QuotaAction : AutoReset(usage)[a] = 0
    BY <1>1, <1>2 DEF AutoReset
  <2> QED
    BY <1>1, <1>2, <2>1 DEF UsageExact, QuotaAction
<1>7. HighestOK /\ SavedOK /\ FreshOK
  BY <1>1, <1>2, <1>3 DEF HighestOK, SavedOK, FreshOK, NoFile
<1> QED
  BY <1>4, <1>5, <1>6, <1>7 DEF QuotaInv

\* Every operation, by its lemma.
LEMMA QuotaNextInv == QuotaInv /\ [QuotaNext]_quotaVars => QuotaInv'
<1> SUFFICES ASSUME QuotaInv, [QuotaNext]_quotaVars PROVE QuotaInv'
  OBVIOUS
<1>1. ASSUME UNCHANGED <<hour, override, usage, lastHour, lastDay, file, caller, held, actual,
                         forgottenAt, highest, uses>>
      PROVE  QuotaInv'
  BY <1>1 DEF QuotaInv, QuotaTypes, HighestOK, BoundOK, SavedOK, FreshOK, UsageExact, AutoReset,
              Limit, Most, Count, CountIn, Undefined, Day
<1>2. CASE markDirty \/ UNCHANGED quotaVars
  BY <1>1, <1>2 DEF markDirty, quotaVars
<1>3. CASE AutoSave \/ stopAutoSave
  BY <1>3, SaveInv DEF AutoSave, stopAutoSave
<1>4. ASSUME NEW c \in Callers,
             (\E a \in QuotaAction : checkQuota(c, a)) \/ (\E n \in Amounts : recordUsage(c, n)) \/ Release(c)
      PROVE  QuotaInv'
  BY <1>4, CheckInv, RecordInv, ReleaseInv
<1>5. CASE \E q \in Overrides : setQuota(q)
  BY <1>5, SetQuotaInv
<1>6. CASE removeTenant \/ HourPasses \/ CrashAndLoad
  BY <1>6, RemoveTenantInv, HourPassesInv, CrashAndLoadInv
<1> QED
  BY <1>2, <1>3, <1>4, <1>5, <1>6 DEF QuotaNext

\* QuotaInv is inductive.
LEMMA QuotaInvariance == QuotaSpec => []QuotaInv
BY QuotaInitInv, QuotaNextInv, PTL DEF QuotaSpec
-----------------------------------------------------------------------------
(* What is proved of the quotas *)

\* At most one override, and boundaries that never lie in the future.
LEMMA QuotaInvTypes == QuotaInv => QuotaTypeOK
<1> SUFFICES ASSUME QuotaInv PROVE QuotaTypeOK
  OBVIOUS
<1>1. QuotaTypes
  BY DEF QuotaInv
<1>2. Cardinality(override) <= 1
  <2>1. CASE override = {}
    BY <2>1, FS_EmptySet
  <2>2. ASSUME NEW q \in override, override = {q} PROVE Cardinality(override) <= 1
    <3>1. Cardinality({q}) = 1
      BY FS_Singleton
    <3> QED
      BY <2>2, <3>1
  <2> QED
    BY <1>1, <2>1, <2>2 DEF QuotaTypes
<1> QED
  BY <1>1, <1>2 DEF QuotaTypes, QuotaTypeOK

\* They do throughout.
THEOREM QuotaTypeCorrect == QuotaSpec => []QuotaTypeOK
BY QuotaInvTypes, QuotaInvariance, PTL

\* Without a limit above nothing no use is ever granted.
Unused ==
    highest = 0 =>
        /\ \A a \in QuotaAction : usage[a] = 0
        /\ \A c \in Callers : caller[c] = "idle"
        /\ file.stored => \A a \in QuotaAction : file.usage[a] = 0

\* Nor does anything else count.
LEMMA NothingUsed == QuotaInv /\ Unused /\ [QuotaNext]_quotaVars => Unused'
<1> SUFFICES ASSUME QuotaInv, Unused, [QuotaNext]_quotaVars, highest' = 0
             PROVE  /\ \A a \in QuotaAction : usage'[a] = 0
                    /\ \A c \in Callers : caller'[c] = "idle"
                    /\ file'.stored => \A a \in QuotaAction : file'.usage[a] = 0
  BY DEF Unused
<1>1. highest = 0
  BY DEF QuotaInv, QuotaTypes, QuotaNext, quotaVars, checkQuota, recordUsage, Release, setQuota,
         removeTenant, HourPasses, markDirty, AutoSave, stopAutoSave, save, CrashAndLoad
<1>2. /\ \A a \in QuotaAction : usage[a] = 0
      /\ \A c \in Callers : caller[c] = "idle"
      /\ file.stored => \A a \in QuotaAction : file.usage[a] = 0
  BY <1>1 DEF Unused
<1>3. \A a \in QuotaAction : AutoReset(usage)[a] = 0 /\ Zero[a] = 0
  BY <1>2 DEF AutoReset, Zero
<1>4. getQuota = 0
  BY <1>1, QuotaInForce DEF QuotaInv
<1>5. ASSUME NEW c \in Callers, NEW a \in QuotaAction, checkQuota(c, a)
      PROVE  usage' = AutoReset(usage) /\ UNCHANGED <<caller, file>>
  BY <1>3, <1>4, <1>5 DEF checkQuota
<1>6. ASSUME NEW c \in Callers, (\E n \in Amounts : recordUsage(c, n)) \/ Release(c)
      PROVE  FALSE
  BY <1>2, <1>6 DEF recordUsage, Release, QuotaAction
<1>7. CASE AutoSave \/ stopAutoSave
  BY <1>2, <1>3, <1>7 DEF AutoSave, stopAutoSave, save
<1>8. CASE removeTenant \/ CrashAndLoad
  BY <1>2, <1>3, <1>8 DEF removeTenant, CrashAndLoad
<1>9. CASE markDirty \/ HourPasses \/ (\E q \in Overrides : setQuota(q)) \/ UNCHANGED quotaVars
  BY <1>2, <1>9 DEF markDirty, HourPasses, setQuota, quotaVars
<1> QED
  BY <1>2, <1>3, <1>5, <1>6, <1>7, <1>8, <1>9 DEF QuotaNext

\* For any number of callers, any limits, amounts, hours, crashes and removals:
\* a limit is overrun by less than MaxAmount for each caller, and the usage
\* that a check sees is the real one as far as lost counts allow.
THEOREM QuotaBounded == QuotaSpec => []QuotaOverrunBounded
<1>1. ASSUME QuotaInv, Unused PROVE QuotaOverrunBounded
  <2>1. ASSUME NEW a \in QuotaAction
        PROVE  \/ usage[a] < highest + MaxAmount * Cardinality(Callers)
               \/ highest = 0 /\ usage[a] = 0
    <3>1. /\ usage[a] \in Int /\ Most(Count(a)) \in Nat /\ Limit \in Nat
          /\ usage[a] + Most(Count(a)) < Limit
      BY <1>1, Bounds
    <3>2. highest \in Nat /\ Most(Cardinality(Callers)) \in Nat
      BY <1>1, FS_CardinalityType, Mosts DEF QuotaInv, QuotaTypes
    <3>3. usage[a] < Limit /\ (highest # 0 => Limit = highest + Most(Cardinality(Callers)))
      BY <3>1 DEF Limit
    <3>4. highest = 0 \/ usage[a] < highest + Most(Cardinality(Callers))
      BY <3>1, <3>2, <3>3
    <3> QED
      BY <1>1, <3>4 DEF Most, Unused
  <2> QED
    BY <1>1, <2>1 DEF QuotaInv, QuotaOverrunBounded
<1>2. QuotaInit => Unused
  BY DEF QuotaInit, Unused, Zero, NoFile
<1> QED
  BY <1>1, <1>2, NothingUsed, QuotaInvariance, PTL DEF QuotaSpec
-----------------------------------------------------------------------------
(* The parts beside each other *)

\* Every part keeps its invariant while the others take their steps.
LEMMA ServiceInvariance == ServiceSpec => [](DaemonInv /\ RateInv /\ QuotaInv)
<1> DEFINE Inv == DaemonInv /\ RateInv /\ QuotaInv
<1>1. ServiceInit => Inv
  BY DaemonInitInv, RateInitOK, QuotaInitInv DEF ServiceInit
<1>2. Inv /\ [ServiceNext]_serviceVars => Inv'
  <2> SUFFICES ASSUME Inv, [ServiceNext]_serviceVars PROVE Inv'
    OBVIOUS
  <2>1. /\ [DaemonNext]_daemonVars
        /\ [BucketNext \/ LimiterNext]_rateVars
        /\ [QuotaNext]_quotaVars
    BY DEF ServiceNext, serviceVars
  <2> QED
    BY <2>1, DaemonNextInv, RateNextInv, QuotaNextInv
<1> QED
  BY <1>1, <1>2, PTL DEF ServiceSpec

\* The daemon, its limiters and its quotas keep their types in every
\* interleaving of their steps.
THEOREM ServiceTypeCorrect == ServiceSpec => []ServiceTypeOK
<1>1. DaemonInv /\ RateInv /\ QuotaInv => ServiceTypeOK
  BY DaemonInvTypes, RateInvTypes, QuotaInvTypes DEF ServiceTypeOK
<1> QED
  BY <1>1, ServiceInvariance, PTL
=============================================================================
