-------------------------- MODULE AuditChainProofs --------------------------
(***************************************************************************)
(* The audit sinks and the event log for any number of events, faults,     *)
(* files and flushes under way: what is stored is chained, what was        *)
(* acknowledged is kept, what verifies has no hole, and the WORM sink and  *)
(* the event log implement a tamper-evident log.                           *)
(***************************************************************************)
EXTENDS AuditChain, SequenceTheorems, WellFoundedInduction, TLAPS

Entry(n)   == [ev : 1..n, hash : Seq(1..n)]
Line(n)    == Entry(n) \cup {Garbage}
Flights(n) == [out : Seq(Entry(n)), todo : Seq(1..n), writer : 0..n,
               arrived : BOOLEAN, ok : BOOLEAN, live : BOOLEAN]

\* The state speaks of the events 1..n.
Types(n) ==
    /\ buffer \in Seq(Entry(n)) /\ lastHash \in Seq(1..n)
    /\ lines \in Seq(Line(n)) /\ flights \in Seq(Flights(n))
    /\ acked \subseteq 1..n /\ crashed \subseteq 1..n

\* The files: all lines are in one, and a line is cut only by a torn append.
FilesOK ==
    /\ starts \in Seq(Nat) /\ eol \in BOOLEAN
    /\ starts = << >> => lines = << >>
    /\ starts # << >> => starts[1] = 0 /\ starts[Len(starts)] <= Len(lines)
    /\ ~eol => lines # << >> /\ "torn" \in causes
    /\ "torn" \notin causes => Entries = 1..Len(lines)

\* Which state belongs to which sink.
SinkOK ==
    /\ kind \in {"memory", "http", "syslog"} => causes \cap {"failed", "torn", "refused"} = {}
    /\ kind \notin {"file", "worm"} => gone = 0 /\ segment = 1 /\ frozen = {}
    /\ kind \in {"memory", "eventlog"} => buffer = << >>
    /\ kind \notin Networks => flights = << >>
    /\ kind = "file" /\ gone # 0 => "overwritten" \in causes

Places ==
    /\ kind \in Kinds
    /\ gone \in 0..Len(starts)
    /\ segment \in {Len(starts), Len(starts) + 1} /\ segment # 0
    /\ frozen \subseteq 1..Len(starts)
    /\ causes \subseteq Causes /\ faults \in 0..MaxFaults

Base(n) == Types(n) /\ Places /\ FilesOK /\ SinkOK
BaseInv == nextEvent \in 1..(MaxEvents + 1) /\ Base(nextEvent - 1)

\* The chain: without what may break it the lines are linked one to the next,
\* lastHash is the hash of the last one, and the buffer of the WORM sink is
\* sealed from there on.
HashOf(ls) == IF ls = << >> THEN initialHash ELSE ls[Len(ls)].hash
LinkedAll(ls) ==
    \A i \in 1..Len(ls) :
        ls[i].hash = chainHashOf(IF i = 1 THEN initialHash ELSE ls[i - 1].hash, <<ls[i].ev>>)

ChainOK ==
    causes \cap BreakCauses[kind] = {} /\ kind \notin Networks =>
        /\ LinkedAll(lines)
        /\ kind # "worm" => lastHash = HashOf(lines)
        /\ kind = "worm" => /\ buffer = Sealed(HashOf(lines), EventsOf(buffer))
                            /\ lastHash = chainHashOf(HashOf(lines), EventsOf(buffer))

SealOK == kind = "worm" /\ buffer # << >> => buffer[Len(buffer)].hash = lastHash

\* The write that waits for a flush has its event on the way or stored.
FlightEvents(f) == EventSet(f.out) \cup Range(f.todo)
OnWay(fs) == UNION {FlightEvents(fs[i]) : i \in 1..Len(fs)}
FlightOK(f, k, stored, cs) ==
    /\ k = "http" => /\ f.writer # 0 => f.writer \in EventSet(f.out)
                     /\ f.arrived => EventSet(f.out) \subseteq stored
                     /\ f.todo = << >>
    /\ k = "syslog" /\ "unsent" \notin cs /\ f.writer # 0 => f.writer \in FlightEvents(f) \cup stored
FlightsOK(fs, k, stored, cs) == \A i \in 1..Len(fs) : FlightOK(fs[i], k, stored, cs)

Held == StoredEvents \cup InMemory \cup crashed
LossOK ==
    /\ causes \cap LossCauses[kind] = {} => acked \subseteq Held
    /\ FlightsOK(flights, kind, StoredEvents, causes)

\* The hash of an event that no restart and no failure has separated from the
\* first one commits to all before it.
Upto(n) == [i \in 1..n |-> i]
FromFirst(ls) == \A i \in 1..Len(ls) : ls[i] # Garbage => ls[i].hash = Upto(ls[i].ev)

LogOK ==
    kind = "eventlog" /\ "failed" \notin causes /\ Entries = 1..Len(lines) =>
        Len(lines) = nextEvent - 1 /\ \A i \in 1..Len(lines) : lines[i].ev = i

\* The WORM sink before a restart, and without a torn or refused append.
FirstLifeOK ==
    kind = "worm" /\ "restart" \notin causes =>
        /\ lastHash = Upto(nextEvent - 1)
        /\ FromFirst(lines) /\ FromFirst(buffer)
NoGapOK ==
    kind = "worm" /\ causes \cap {"torn", "refused"} = {} =>
        /\ 1..(nextEvent - 1) \subseteq StoredEvents \cup crashed \cup EventSet(buffer)
        /\ \A d \in StoredEvents, b \in EventSet(buffer) : d < b

HoleOK == LogOK /\ FirstLifeOK /\ NoGapOK

USE AuditAssumption
-----------------------------------------------------------------------------
(* Hashes and entries *)

\* What speaks of the first events speaks of more of them.
LEMMA Wider ==
    ASSUME NEW n \in Nat, NEW m \in Nat, n <= m
    PROVE  /\ 1..n \subseteq 1..m /\ 0..n \subseteq 0..m /\ Seq(1..n) \subseteq Seq(1..m)
           /\ Entry(n) \subseteq Entry(m) /\ Seq(Entry(n)) \subseteq Seq(Entry(m))
           /\ Line(n) \subseteq Line(m) /\ Seq(Line(n)) \subseteq Seq(Line(m))
           /\ Flights(n) \subseteq Flights(m) /\ Seq(Flights(n)) \subseteq Seq(Flights(m))
<1>1. 1..n \subseteq 1..m /\ 0..n \subseteq 0..m
  OBVIOUS
<1>2. Seq(1..n) \subseteq Seq(1..m)
  BY <1>1, SeqMonotonic
<1>3. Entry(n) \subseteq Entry(m)
  BY <1>1, <1>2 DEF Entry
<1>4. Seq(Entry(n)) \subseteq Seq(Entry(m))
  BY <1>3, SeqMonotonic
<1>5. Line(n) \subseteq Line(m)
  BY <1>3 DEF Line
<1>6. Seq(Line(n)) \subseteq Seq(Line(m))
  BY <1>5, SeqMonotonic
<1>7. Flights(n) \subseteq Flights(m)
  BY <1>1, <1>2, <1>4 DEF Flights
<1>8. Seq(Flights(n)) \subseteq Seq(Flights(m))
  BY <1>7, SeqMonotonic
<1> QED
  BY <1>1, <1>2, <1>3, <1>4, <1>5, <1>6, <1>7, <1>8

\* An entry is no garbage.
LEMMA EntryFields ==
    ASSUME NEW m \in Nat, NEW x \in Entry(m)
    PROVE  /\ x.ev \in 1..m /\ x.hash \in Seq(1..m) /\ x # Garbage
           /\ x = [ev |-> x.ev, hash |-> x.hash]
<1>1. x.ev \in 1..m /\ x.hash \in Seq(1..m) /\ x = [ev |-> x.ev, hash |-> x.hash]
  BY DEF Entry
<1>2. x.ev # 0
  BY <1>1
<1>3. Garbage.ev = 0
  BY DEF Garbage
<1> QED
  BY <1>1, <1>2, <1>3

\* A line is an entry or garbage.
LEMMA LineCases ==
    ASSUME NEW m \in Nat, NEW x \in Line(m), x # Garbage
    PROVE  x \in Entry(m) /\ x.ev \in 1..m /\ x.hash \in Seq(1..m)
<1>1. x \in Entry(m)
  BY DEF Line
<1> QED
  BY <1>1, EntryFields

\* A function on 1..n is a sequence.
LEMMA FunctionSeq ==
    ASSUME NEW S, NEW n \in Nat, NEW f \in [1..n -> S]
    PROVE  f \in Seq(S) /\ Len(f) = n
OBVIOUS

\* A set of numbers has a smallest one.
LEMMA Smallest ==
    ASSUME NEW T, T \subseteq Nat, T # {}
    PROVE  \E x \in T : \A y \in T : x <= y
<1> DEFINE R == {ss \in Nat \X Nat : ss[1] < ss[2]}
<1>1. IsWellFoundedOn(R, Nat)
  BY NatLessThanWellFounded DEF OpToRel
<1> HIDE DEF R
<1>2. PICK x \in T : \A y \in T : ~(<<y, x>> \in R)
  BY <1>1, WFMin
<1>3. ASSUME NEW y \in T PROVE x <= y
  <2>1. ~(y < x)
    BY <1>2, <1>3 DEF R
  <2> QED
    BY <2>1
<1> QED
  BY <1>3

\* A bounded set of numbers has a largest one.
LEMMA Largest ==
    ASSUME NEW n \in Nat, NEW T, T \subseteq 1..n, T # {}
    PROVE  \E x \in T : \A y \in T : y <= x
<1> DEFINE U == {n - y : y \in T}
<1>1. U \subseteq Nat /\ U # {}
  <2>1. \A y \in T : n - y \in Nat
    OBVIOUS
  <2>2. PICK z \in T : TRUE
    OBVIOUS
  <2>3. n - z \in U
    OBVIOUS
  <2> QED
    BY <2>1, <2>3
<1>2. PICK lo \in U : \A w \in U : lo <= w
  <2> HIDE DEF U
  <2> QED
    BY <1>1, Smallest
<1>3. PICK x \in T : lo = n - x
  BY <1>2
<1>4. ASSUME NEW y \in T PROVE y <= x
  <2>1. n - y \in U
    OBVIOUS
  <2>2. n - x <= n - y
    BY <1>2, <1>3, <2>1
  <2>3. x \in Nat /\ y \in Nat
    OBVIOUS
  <2> QED
    BY <2>2, <2>3
<1> QED
  BY <1>4

\* Chaining events after a hash.
LEMMA Chaining ==
    ASSUME NEW S, NEW h \in Seq(S), NEW es \in Seq(S)
    PROVE  /\ chainHashOf(h, es) \in Seq(S) /\ Len(chainHashOf(h, es)) = Len(h) + Len(es)
           /\ chainHashOf(h, << >>) = h
BY ConcatProperties, ConcatEmptySeq DEF chainHashOf

\* One event more.
LEMMA ChainingOne ==
    ASSUME NEW S, NEW h \in Seq(S), NEW es \in Seq(S), NEW e \in S
    PROVE  /\ chainHashOf(chainHashOf(h, es), <<e>>) = chainHashOf(h, Append(es, e))
           /\ chainHashOf(h, <<e>>) = Append(h, e)
<1> DEFINE one == <<e>>
<1>1. one \in Seq(S) /\ Append(es, e) = es \o one /\ Append(h, e) = h \o one
  BY AppendIsConcat
<1> HIDE DEF one
<1>2. (h \o es) \o one = h \o (es \o one)
  BY <1>1, ConcatAssociative
<1> QED
  BY <1>1, <1>2 DEF one, chainHashOf

\* A part of a sequence from its start.
LEMMA Prefix ==
    ASSUME NEW S, NEW s \in Seq(S), NEW k \in 0..Len(s)
    PROVE  /\ SubSeq(s, 1, k) \in Seq(S) /\ Len(SubSeq(s, 1, k)) = k
           /\ \A i \in 1..k : SubSeq(s, 1, k)[i] = s[i]
<1>1. Len(s) \in Nat /\ \A i \in 1..k : s[i] \in S
  BY LenProperties, ElementOfSeq
<1>2. /\ SubSeq(s, 1, k) \in Seq(S)
      /\ Len(SubSeq(s, 1, k)) = IF 1 <= k THEN k - 1 + 1 ELSE 0
      /\ \A i \in 1..(k - 1 + 1) : SubSeq(s, 1, k)[i] = s[1 + i - 1]
  BY <1>1, SubSeqProperties
<1> QED
  BY <1>1, <1>2

\* The events of a sequence of entries.
LEMMA EventsOfType ==
    ASSUME NEW m \in Nat, NEW es \in Seq(Entry(m))
    PROVE  /\ EventsOf(es) \in Seq(1..m) /\ Len(EventsOf(es)) = Len(es)
           /\ \A i \in 1..Len(es) : EventsOf(es)[i] = es[i].ev
           /\ EventSet(es) \subseteq 1..m
<1>1. Len(es) \in Nat
  BY LenProperties
<1>2. \A i \in 1..Len(es) : es[i].ev \in 1..m
  BY ElementOfSeq, EntryFields
<1>3. EventsOf(es) \in [1..Len(es) -> 1..m]
  BY <1>2 DEF EventsOf
<1>4. EventsOf(es) \in Seq(1..m) /\ Len(EventsOf(es)) = Len(es)
  BY <1>1, <1>3
<1> QED
  BY <1>2, <1>4 DEF EventsOf, EventSet

\* Sealed entries.
LEMMA SealedType ==
    ASSUME NEW m \in Nat, NEW h \in Seq(1..m), NEW es \in Seq(1..m)
    PROVE  /\ Sealed(h, es) \in Seq(Entry(m)) /\ Len(Sealed(h, es)) = Len(es)
           /\ \A i \in 1..Len(es) : /\ Sealed(h, es)[i].ev = es[i]
                                    /\ Sealed(h, es)[i].hash = chainHashOf(h, SubSeq(es, 1, i))
           /\ EventsOf(Sealed(h, es)) = es
           /\ EventSet(Sealed(h, es)) = Range(es)
<1>1. Len(es) \in Nat /\ DOMAIN es = 1..Len(es)
  BY LenProperties
<1>2. ASSUME NEW i \in 1..Len(es)
      PROVE  es[i] \in 1..m /\ chainHashOf(h, SubSeq(es, 1, i)) \in Seq(1..m)
  <2>1. es[i] \in 1..m
    BY ElementOfSeq
  <2>2. i \in 0..Len(es)
    BY <1>1
  <2>3. SubSeq(es, 1, i) \in Seq(1..m)
    BY <2>2, Prefix
  <2> QED
    BY <2>1, <2>3, Chaining
<1>3. \A i \in 1..Len(es) : [ev |-> es[i], hash |-> chainHashOf(h, SubSeq(es, 1, i))] \in Entry(m)
  BY <1>2 DEF Entry
<1>4. Sealed(h, es) \in [1..Len(es) -> Entry(m)]
  BY <1>3 DEF Sealed
<1>5. Sealed(h, es) \in Seq(Entry(m)) /\ Len(Sealed(h, es)) = Len(es)
  BY <1>1, <1>4, FunctionSeq
<1>6. \A i \in 1..Len(es) : /\ Sealed(h, es)[i].ev = es[i]
                            /\ Sealed(h, es)[i].hash = chainHashOf(h, SubSeq(es, 1, i))
  BY DEF Sealed
<1>7. EventsOf(Sealed(h, es)) = es
  <2>1. EventsOf(Sealed(h, es)) \in Seq(1..m) /\ Len(EventsOf(Sealed(h, es))) = Len(es)
    BY <1>5, EventsOfType
  <2>2. \A i \in 1..Len(es) : EventsOf(Sealed(h, es))[i] = es[i]
    BY <1>5, <1>6, EventsOfType
  <2> QED
    BY <2>1, <2>2, SeqEqual
<1>8. EventSet(Sealed(h, es)) = Range(es)
  BY <1>1, <1>5, <1>6 DEF EventSet, Range
<1> QED
  BY <1>5, <1>6, <1>7, <1>8

\* Each entry is sealed from the one before it.
LEMMA SealedLinks ==
    ASSUME NEW m \in Nat, NEW h \in Seq(1..m), NEW es \in Seq(1..m), NEW i \in 1..Len(es)
    PROVE  /\ Sealed(h, es)[i].hash
                  = chainHashOf(IF i = 1 THEN h ELSE Sealed(h, es)[i - 1].hash, <<es[i]>>)
           /\ i = Len(es) => Sealed(h, es)[i].hash = chainHashOf(h, es)
<1> DEFINE before == SubSeq(es, 1, i - 1)
           last   == es[i]
<1>1. Len(es) \in Nat /\ last \in 1..m
  BY LenProperties, ElementOfSeq
<1>2. Sealed(h, es)[i].hash = chainHashOf(h, SubSeq(es, 1, i))
  BY SealedType
<1>3. before \in Seq(1..m)
  <2>1. i - 1 \in 0..Len(es)
    BY <1>1
  <2> QED
    BY <2>1, Prefix
<1>4. SubSeq(es, 1, i) = Append(before, last)
  <2>1. SubSeq(es, 1, i) = before \o <<last>>
    BY <1>1, SubSeqRecursiveSecond
  <2> HIDE DEF before, last
  <2> QED
    BY <1>1, <1>3, <2>1, AppendIsConcat
<1>5. i = Len(es) => SubSeq(es, 1, i) = es
  BY <1>1, SubSeqFull
<1>6. i = 1 => before = << >>
  BY <1>1, SubSeqEmpty
<1>7. i # 1 => Sealed(h, es)[i - 1].hash = chainHashOf(h, before)
  <2>1. i # 1 => i - 1 \in 1..Len(es)
    BY <1>1
  <2> QED
    BY <2>1, SealedType
<1>8. chainHashOf(h, << >>) = h
  BY Chaining
<1>9. chainHashOf(chainHashOf(h, before), <<last>>) = chainHashOf(h, Append(before, last))
  <2> HIDE DEF before, last
  <2> QED
    BY <1>1, <1>3, ChainingOne
<1>10. (IF i = 1 THEN h ELSE Sealed(h, es)[i - 1].hash) = chainHashOf(h, before)
  BY <1>6, <1>7, <1>8
<1> QED
  BY <1>2, <1>4, <1>5, <1>9, <1>10

\* To seal one more event is to seal all of them.
LEMMA SealedOneMore ==
    ASSUME NEW m \in Nat, NEW h \in Seq(1..m), NEW es \in Seq(1..m), NEW e \in 1..m
    PROVE  /\ Sealed(h, es) \o Sealed(chainHashOf(h, es), <<e>>) = Sealed(h, Append(es, e))
           /\ chainHashOf(chainHashOf(h, es), <<e>>) = chainHashOf(h, Append(es, e))
<1> DEFINE x == chainHashOf(h, es)
           o == <<e>>
           t == Append(es, e)
           a == Sealed(h, es)
           b == Sealed(x, o)
           c == Sealed(h, t)
<1>1. Len(es) \in Nat /\ o \in Seq(1..m) /\ Len(o) = 1 /\ o[1] = e
  BY LenProperties
<1>2. x \in Seq(1..m)
  BY Chaining
<1>3. /\ t \in Seq(1..m) /\ Len(t) = Len(es) + 1
      /\ \A i \in 1..Len(es) : t[i] = es[i]
      /\ t[Len(es) + 1] = e
  BY AppendProperties
<1>4. chainHashOf(x, o) = chainHashOf(h, t)
  BY ChainingOne
<1> HIDE DEF x, o, t
<1>5. a \in Seq(Entry(m)) /\ Len(a) = Len(es)
  BY SealedType
<1>6. b \in Seq(Entry(m)) /\ Len(b) = 1 /\ b[1].ev = e /\ b[1].hash = chainHashOf(x, o)
  <2>1. SubSeq(o, 1, 1) = o
    BY <1>1, SubSeqFull
  <2>2. /\ b \in Seq(Entry(m)) /\ Len(b) = Len(o)
        /\ \A i \in 1..Len(o) : b[i].ev = o[i] /\ b[i].hash = chainHashOf(x, SubSeq(o, 1, i))
    BY <1>1, <1>2, SealedType
  <2> HIDE DEF b
  <2>3. b[1].ev = o[1] /\ b[1].hash = chainHashOf(x, SubSeq(o, 1, 1))
    BY <1>1, <2>2
  <2> QED
    BY <1>1, <2>1, <2>2, <2>3
<1>7. /\ c \in Seq(Entry(m)) /\ Len(c) = Len(es) + 1
      /\ \A i \in 1..Len(t) : c[i].ev = t[i] /\ c[i].hash = chainHashOf(h, SubSeq(t, 1, i))
  BY <1>3, SealedType
<1>8. ASSUME NEW i \in 1..Len(es) PROVE a[i] = c[i]
  <2>1. i \in 0..Len(es) /\ i \in 0..Len(t) /\ i \in 1..Len(t) /\ i \in 1..Len(a) /\ i \in 1..Len(c)
    BY <1>1, <1>3, <1>5, <1>7
  <2>2. SubSeq(t, 1, i) = SubSeq(es, 1, i)
    <3>1. /\ SubSeq(es, 1, i) \in Seq(1..m) /\ Len(SubSeq(es, 1, i)) = i
          /\ \A j \in 1..i : SubSeq(es, 1, i)[j] = es[j]
      BY <2>1, Prefix
    <3>2. /\ SubSeq(t, 1, i) \in Seq(1..m) /\ Len(SubSeq(t, 1, i)) = i
          /\ \A j \in 1..i : SubSeq(t, 1, i)[j] = t[j]
      BY <1>3, <2>1, Prefix
    <3>3. \A j \in 1..i : SubSeq(t, 1, i)[j] = SubSeq(es, 1, i)[j]
      BY <1>1, <1>3, <3>1, <3>2
    <3> QED
      BY <3>1, <3>2, <3>3, SeqEqual
  <2>3. a[i].ev = es[i] /\ a[i].hash = chainHashOf(h, SubSeq(es, 1, i))
    BY SealedType
  <2> HIDE DEF a, c
  <2>4. a[i] \in Entry(m) /\ c[i] \in Entry(m)
    BY <1>5, <1>7, <2>1, ElementOfSeq
  <2>5. a[i] = [ev |-> a[i].ev, hash |-> a[i].hash] /\ c[i] = [ev |-> c[i].ev, hash |-> c[i].hash]
    BY <2>4, EntryFields
  <2>6. c[i].ev = es[i] /\ c[i].hash = chainHashOf(h, SubSeq(es, 1, i))
    BY <1>3, <1>7, <2>1, <2>2
  <2> QED
    BY <2>3, <2>5, <2>6
<1> HIDE DEF a, b, c
<1>9. b[1] = c[Len(es) + 1]
  <2>1. Len(es) + 1 \in 1..Len(t) /\ 1 \in 1..Len(b) /\ Len(es) + 1 \in 1..Len(c)
    BY <1>1, <1>3, <1>6, <1>7
  <2>2. SubSeq(t, 1, Len(es) + 1) = t
    BY <1>3, SubSeqFull
  <2>3. c[Len(es) + 1].ev = e /\ c[Len(es) + 1].hash = chainHashOf(h, t)
    BY <1>3, <1>7, <2>1, <2>2
  <2>4. b[1] \in Entry(m) /\ c[Len(es) + 1] \in Entry(m)
    BY <1>6, <1>7, <2>1, ElementOfSeq
  <2>5. /\ b[1] = [ev |-> b[1].ev, hash |-> b[1].hash]
        /\ c[Len(es) + 1] = [ev |-> c[Len(es) + 1].ev, hash |-> c[Len(es) + 1].hash]
    BY <2>4, EntryFields
  <2> QED
    BY <1>4, <1>6, <2>3, <2>5
<1>10. /\ a \o b \in Seq(Entry(m)) /\ Len(a \o b) = Len(es) + 1
       /\ \A i \in 1..(Len(es) + 1) : (a \o b)[i] = IF i <= Len(es) THEN a[i] ELSE b[i - Len(es)]
  <2>1. /\ a \o b \in Seq(Entry(m)) /\ Len(a \o b) = Len(a) + Len(b)
        /\ \A i \in 1..(Len(a) + Len(b)) : (a \o b)[i] = IF i <= Len(a) THEN a[i] ELSE b[i - Len(a)]
    BY <1>5, <1>6, ConcatProperties
  <2> QED
    BY <1>5, <1>6, <2>1
<1>11. \A i \in 1..Len(a \o b) : (a \o b)[i] = c[i]
  <2>1. ASSUME NEW i \in 1..(Len(es) + 1) PROVE (a \o b)[i] = c[i]
    <3>1. CASE i <= Len(es)
      BY <1>1, <1>8, <1>10, <3>1
    <3>2. CASE i = Len(es) + 1
      <4>1. ~(i <= Len(es)) /\ i - Len(es) = 1
        BY <1>1, <3>2
      <4> QED
        BY <1>9, <1>10, <3>2, <4>1
    <3>3. i <= Len(es) \/ i = Len(es) + 1
      BY <1>1
    <3> QED
      BY <3>1, <3>2, <3>3
  <2> QED
    BY <1>10, <2>1
<1>12. a \o b = c
  BY <1>7, <1>10, <1>11, SeqEqual
<1> QED
  BY <1>4, <1>12 DEF a, b, c, x, o, t
-----------------------------------------------------------------------------
(* Lines and files *)

\* A line that is cut and joined with the first of more lines.
LEMMA Joined ==
    ASSUME NEW S, NEW g \in S, NEW s \in Seq(S), s # << >>, NEW t \in Seq(S), t # << >>
    PROVE  LET r == [s EXCEPT ![Len(s)] = g] \o Tail(t)
           IN  /\ r \in Seq(S) /\ Len(r) = Len(s) + Len(t) - 1 /\ r[Len(s)] = g
               /\ \A i \in 1..Len(r) : /\ i < Len(s) => r[i] = s[i]
                                       /\ i > Len(s) => r[i] = t[i - Len(s) + 1]
<1> DEFINE a == [s EXCEPT ![Len(s)] = g]
           b == Tail(t)
<1>1. Len(s) \in Nat \ {0} /\ Len(t) \in Nat \ {0} /\ Len(s) \in 1..Len(s)
  BY EmptySeq
<1>2. a \in Seq(S) /\ Len(a) = Len(s) /\ \A j \in 1..Len(s) : a[j] = IF j = Len(s) THEN g ELSE s[j]
  BY <1>1, ExceptSeq
<1>3. b \in Seq(S) /\ Len(b) = Len(t) - 1 /\ \A i \in 1..Len(b) : b[i] = t[i + 1]
  BY HeadTailProperties
<1> HIDE DEF a, b
<1>4. /\ a \o b \in Seq(S) /\ Len(a \o b) = Len(a) + Len(b)
      /\ \A i \in 1..(Len(a) + Len(b)) : (a \o b)[i] = IF i <= Len(a) THEN a[i] ELSE b[i - Len(a)]
  BY <1>2, <1>3, ConcatProperties
<1>5. Len(a \o b) = Len(s) + Len(t) - 1
  BY <1>1, <1>2, <1>3, <1>4
<1>6. (a \o b)[Len(s)] = g
  <2>1. Len(s) \in 1..(Len(a) + Len(b)) /\ Len(s) <= Len(a)
    BY <1>1, <1>2, <1>3
  <2> QED
    BY <1>1, <1>2, <1>4, <2>1
<1>7. ASSUME NEW i \in 1..Len(a \o b)
      PROVE  /\ i < Len(s) => (a \o b)[i] = s[i]
             /\ i > Len(s) => (a \o b)[i] = t[i - Len(s) + 1]
  <2>1. CASE i < Len(s)
    <3>1. i \in 1..Len(s) /\ i # Len(s) /\ i <= Len(a) /\ i \in 1..(Len(a) + Len(b))
      BY <1>1, <1>2, <1>4, <2>1
    <3> QED
      BY <1>1, <1>2, <1>4, <2>1, <3>1
  <2>2. CASE i > Len(s)
    <3>1. i - Len(s) \in 1..Len(b) /\ ~(i <= Len(a)) /\ i \in 1..(Len(a) + Len(b)) /\ i - Len(a) = i - Len(s)
      BY <1>1, <1>2, <1>3, <1>4, <2>2
    <3>2. (a \o b)[i] = b[i - Len(s)]
      BY <1>4, <3>1
    <3>3. b[i - Len(s)] = t[(i - Len(s)) + 1]
      BY <1>3, <3>1
    <3>4. ~(i < Len(s))
      BY <1>1, <2>2
    <3> QED
      BY <3>2, <3>3, <3>4
  <2> QED
    BY <1>1, <2>1, <2>2
<1> QED
  BY <1>4, <1>5, <1>6, <1>7 DEF a, b

\* What an append makes of the lines and of the files.
LEMMA Appending ==
    ASSUME NEW m \in Nat, NEW ls \in Seq(Line(m)), NEW n \in Nat \ {0}, NEW b \in BOOLEAN,
           lines \in Seq(Line(m)), FilesOK, n \in {Len(starts), Len(starts) + 1},
           ls # << >> \/ n > Len(starts) \/ eol, Appended(n, ls, b)
    PROVE  /\ lines' \in Seq(Line(m)) /\ Len(lines) <= Len(lines')
           /\ n > Len(starts) \/ eol => lines' = lines \o ls
           /\ ~(n > Len(starts) \/ eol) =>
                  Len(lines) \in 1..Len(lines') /\ lines'[Len(lines)] = Garbage
           /\ \A i \in 1..Len(lines') :
                  \/ lines'[i] = Garbage
                  \/ i <= Len(lines) /\ lines'[i] = lines[i]
                  \/ \E k \in 1..Len(ls) : lines'[i] = ls[k]
           /\ starts' \in Seq(Nat) /\ Len(starts') = n
           /\ starts' # << >> /\ starts'[1] = 0 /\ starts'[Len(starts')] <= Len(lines')
           /\ eol' = b
<1>1. Len(lines) \in Nat /\ Len(ls) \in Nat /\ Len(starts) \in Nat /\ starts \in Seq(Nat)
  BY LenProperties DEF FilesOK
<1>2. Garbage \in Line(m)
  BY DEF Line
<1> DEFINE kept == n > Len(starts) \/ eol
           Origin(i) == \/ lines'[i] = Garbage
                        \/ i <= Len(lines) /\ lines'[i] = lines[i]
                        \/ \E k \in 1..Len(ls) : lines'[i] = ls[k]
<1>3. ASSUME kept
      PROVE  /\ lines' \in Seq(Line(m)) /\ Len(lines) <= Len(lines') /\ lines' = lines \o ls
             /\ \A i \in 1..Len(lines') : Origin(i)
  <2>1. lines' = lines \o ls
    BY <1>3 DEF Appended
  <2>2. /\ lines \o ls \in Seq(Line(m)) /\ Len(lines \o ls) = Len(lines) + Len(ls)
        /\ \A i \in 1..(Len(lines) + Len(ls)) :
               (lines \o ls)[i] = IF i <= Len(lines) THEN lines[i] ELSE ls[i - Len(lines)]
    BY ConcatProperties
  <2>3. ASSUME NEW i \in 1..Len(lines')
        PROVE  Origin(i)
    <3>1. i <= Len(lines) \/ i - Len(lines) \in 1..Len(ls)
      BY <1>1, <2>1, <2>2
    <3>2. ~(i <= Len(lines)) => i - Len(lines) \in 1..Len(ls) /\ lines'[i] = ls[i - Len(lines)]
      BY <1>1, <2>1, <2>2, <3>1
    <3>3. i <= Len(lines) => lines'[i] = lines[i]
      BY <1>1, <2>1, <2>2
    <3> QED
      BY <3>2, <3>3
  <2>4. Len(lines) <= Len(lines')
    BY <1>1, <2>1, <2>2
  <2> QED
    BY <2>1, <2>2, <2>3, <2>4
<1>4. ASSUME ~kept
      PROVE  /\ lines' \in Seq(Line(m)) /\ Len(lines) <= Len(lines')
             /\ Len(lines) \in 1..Len(lines') /\ lines'[Len(lines)] = Garbage
             /\ \A i \in 1..Len(lines') : Origin(i)
  <2>1. lines' = [lines EXCEPT ![Len(lines)] = Garbage] \o Tail(ls) /\ lines # << >> /\ ls # << >>
    BY <1>4 DEF Appended, FilesOK
  <2>2. /\ lines' \in Seq(Line(m)) /\ Len(lines') = Len(lines) + Len(ls) - 1
        /\ lines'[Len(lines)] = Garbage
        /\ \A i \in 1..Len(lines') : /\ i < Len(lines) => lines'[i] = lines[i]
                                     /\ i > Len(lines) => lines'[i] = ls[i - Len(lines) + 1]
    BY <1>2, <2>1, Joined
  <2>3. Len(lines) # 0 /\ Len(ls) # 0
    BY <2>1, EmptySeq
  <2>4. Len(lines) \in 1..Len(lines') /\ Len(lines) <= Len(lines')
    BY <1>1, <2>2, <2>3
  <2>5. ASSUME NEW i \in 1..Len(lines'), i > Len(lines) PROVE i - Len(lines) + 1 \in 1..Len(ls)
    BY <1>1, <2>2, <2>3, <2>5
  <2>6. ASSUME NEW i \in 1..Len(lines') PROVE i < Len(lines) \/ i = Len(lines) \/ i > Len(lines)
    BY <1>1
  <2>7. ASSUME NEW i \in 1..Len(lines')
        PROVE  Origin(i)
    <3>1. CASE i < Len(lines)
      BY <1>1, <2>2, <3>1
    <3>2. CASE i = Len(lines)
      BY <2>2, <3>2
    <3>3. CASE i > Len(lines)
      BY <2>2, <2>5, <3>3
    <3> QED
      BY <2>6, <3>1, <3>2, <3>3
  <2> QED
    BY <2>2, <2>4, <2>7
<1>5. /\ starts' \in Seq(Nat) /\ Len(starts') = n
      /\ starts' # << >> /\ starts'[1] = 0 /\ starts'[Len(starts')] <= Len(lines)
  <2>1. CASE n > Len(starts)
    <3>1. starts' = Append(starts, Len(lines)) /\ n = Len(starts) + 1
      BY <1>1, <2>1 DEF Appended
    <3>2. /\ starts' \in Seq(Nat) /\ starts' # << >> /\ Len(starts') = n
          /\ \A i \in 1..Len(starts) : starts'[i] = starts[i]
          /\ starts'[n] = Len(lines)
      BY <1>1, <3>1, AppendProperties
    <3>3. starts'[1] = 0
      <4>1. CASE starts = << >>
        <5>1. lines = << >> /\ n = 1 /\ Len(lines) = 0
          BY <3>1, <4>1, EmptySeq DEF FilesOK
        <5> QED
          BY <3>2, <5>1
      <4>2. CASE starts # << >>
        <5>1. 1 \in 1..Len(starts)
          BY <1>1, <4>2, EmptySeq
        <5> QED
          BY <3>2, <4>2, <5>1 DEF FilesOK
      <4> QED
        BY <4>1, <4>2
    <3> QED
      BY <1>1, <3>2, <3>3
  <2>2. CASE ~(n > Len(starts))
    <3>1. starts' = starts /\ n = Len(starts)
      BY <1>1, <2>2 DEF Appended
    <3>2. starts # << >>
      BY <3>1, EmptySeq
    <3> QED
      BY <1>1, <3>1, <3>2 DEF FilesOK
  <2> QED
    BY <2>1, <2>2
<1>6. eol' = b
  BY DEF Appended
<1>7. Len(lines') \in Nat /\ Len(starts') \in Nat /\ starts'[Len(starts')] \in Nat
  <2>1. lines' \in Seq(Line(m)) /\ Len(starts') \in 1..Len(starts')
    BY <1>3, <1>4, <1>5
  <2> QED
    BY <1>5, <2>1, LenProperties, ElementOfSeq
<1>8. Len(lines) <= Len(lines')
  BY <1>3, <1>4
<1>9. starts'[Len(starts')] <= Len(lines')
  BY <1>1, <1>5, <1>7, <1>8
<1> QED
  BY <1>3, <1>4, <1>5, <1>6, <1>9

\* Without a cut line an append adds its lines and their events.
LEMMA Added ==
    ASSUME NEW m \in Nat, NEW ls \in Seq(Entry(m)), lines \in Seq(Line(m)), lines' = lines \o ls
    PROVE  /\ StoredEvents' = StoredEvents \cup EventSet(ls)
           /\ Entries = 1..Len(lines) => Entries' = 1..Len(lines')
<1>1. ls \in Seq(Line(m)) /\ Len(lines) \in Nat /\ Len(ls) \in Nat
  <2>1. Entry(m) \subseteq Line(m)
    BY DEF Line
  <2> QED
    BY <2>1, SeqMonotonic, LenProperties
<1>2. /\ lines' \in Seq(Line(m)) /\ Len(lines') = Len(lines) + Len(ls)
      /\ \A i \in 1..(Len(lines) + Len(ls)) :
             lines'[i] = IF i <= Len(lines) THEN lines[i] ELSE ls[i - Len(lines)]
  BY <1>1, ConcatProperties
<1>3. \A k \in 1..Len(ls) : ls[k] # Garbage
  BY ElementOfSeq, EntryFields
<1>4. \A i \in 1..Len(lines) : i \in 1..Len(lines') /\ lines'[i] = lines[i]
  BY <1>1, <1>2
<1>5. \A k \in 1..Len(ls) : Len(lines) + k \in 1..Len(lines') /\ lines'[Len(lines) + k] = ls[k]
  <2>1. ASSUME NEW k \in 1..Len(ls)
        PROVE  /\ Len(lines) + k \in 1..(Len(lines) + Len(ls)) /\ ~(Len(lines) + k <= Len(lines))
               /\ Len(lines) + k - Len(lines) = k
    BY <1>1
  <2> QED
    BY <1>2, <2>1
<1>6. ASSUME NEW i \in 1..Len(lines')
      PROVE  i \in 1..Len(lines) \/ \E k \in 1..Len(ls) : i = Len(lines) + k
  <2>1. i \in 1..Len(lines) \/ (i - Len(lines) \in 1..Len(ls) /\ i = Len(lines) + (i - Len(lines)))
    BY <1>1, <1>2
  <2> QED
    BY <2>1
<1>7. ASSUME NEW i \in 1..Len(lines'), lines'[i] # Garbage
      PROVE  lines'[i].ev \in StoredEvents \cup EventSet(ls)
  <2>1. CASE i \in 1..Len(lines)
    BY <1>4, <1>7, <2>1 DEF StoredEvents, Entries
  <2>2. CASE \E k \in 1..Len(ls) : i = Len(lines) + k
    BY <1>5, <2>2 DEF EventSet
  <2> QED
    BY <1>6, <2>1, <2>2
<1>8. StoredEvents' = StoredEvents \cup EventSet(ls)
  <2>1. StoredEvents \subseteq StoredEvents'
    BY <1>4 DEF StoredEvents, Entries
  <2>2. EventSet(ls) \subseteq StoredEvents'
    BY <1>3, <1>5 DEF StoredEvents, Entries, EventSet
  <2>3. StoredEvents' \subseteq StoredEvents \cup EventSet(ls)
    BY <1>7 DEF StoredEvents, Entries
  <2> QED
    BY <2>1, <2>2, <2>3
<1>9. ASSUME Entries = 1..Len(lines) PROVE Entries' = 1..Len(lines')
  <2>1. \A i \in 1..Len(lines') : lines'[i] # Garbage
    BY <1>3, <1>4, <1>5, <1>6, <1>9 DEF Entries
  <2> QED
    BY <2>1 DEF Entries
<1> QED
  BY <1>8, <1>9

\* What a torn append adds: lines of the append, and one that is cut.
CutAt(ls, k, cut) == SubSeq(ls, 1, k - 1) \o <<cut>>

\* It adds no other entries.
LEMMA Cut ==
    ASSUME NEW m \in Nat, NEW ls \in Seq(Entry(m)), ls # << >>, NEW k \in 1..Len(ls),
           NEW cut \in {Garbage, ls[k]}, NEW xs, xs = CutAt(ls, k, cut)
    PROVE  /\ xs \in Seq(Line(m)) /\ Len(xs) = k /\ xs # << >> /\ xs[k] = cut
           /\ \A j \in 1..Len(xs) : xs[j] = Garbage \/ \E l \in 1..Len(ls) : xs[j] = ls[l]
           /\ Len(ls) = 1 /\ cut # Garbage => xs = ls
<1> DEFINE a == SubSeq(ls, 1, k - 1)
           c == <<cut>>
<1>1. Len(ls) \in Nat /\ k - 1 \in 0..Len(ls) /\ ls[k] \in Entry(m)
  BY LenProperties, ElementOfSeq
<1>2. Entry(m) \subseteq Line(m) /\ Garbage \in Line(m)
  BY DEF Line
<1>3. cut \in Line(m)
  BY <1>1, <1>2
<1>4. a \in Seq(Entry(m)) /\ Len(a) = k - 1 /\ \A j \in 1..(k - 1) : a[j] = ls[j]
  BY <1>1, Prefix
<1>5. c \in Seq(Line(m)) /\ Len(c) = 1 /\ c[1] = cut
  BY <1>3
<1>6. xs = a \o c
  BY DEF CutAt
<1> HIDE DEF a, c
<1>7. a \in Seq(Line(m))
  BY <1>2, <1>4, SeqMonotonic
<1>8. /\ a \o c \in Seq(Line(m)) /\ Len(a \o c) = Len(a) + Len(c)
      /\ \A i \in 1..(Len(a) + Len(c)) : (a \o c)[i] = IF i <= Len(a) THEN a[i] ELSE c[i - Len(a)]
  BY <1>5, <1>7, ConcatProperties
<1>9. Len(a \o c) = k
  BY <1>1, <1>4, <1>5, <1>8
<1>10. (a \o c)[k] = cut
  <2>1. k \in 1..(Len(a) + Len(c)) /\ ~(k <= Len(a)) /\ k - Len(a) = 1
    BY <1>1, <1>4, <1>5
  <2> QED
    BY <1>5, <1>8, <2>1
<1>11. ASSUME NEW j \in 1..(k - 1) PROVE j \in 1..Len(ls) /\ (a \o c)[j] = ls[j]
  <2>1. j \in 1..(Len(a) + Len(c)) /\ j <= Len(a) /\ j \in 1..Len(ls)
    BY <1>1, <1>4, <1>5
  <2> QED
    BY <1>4, <1>8, <2>1
<1>12. ASSUME NEW j \in 1..Len(a \o c)
       PROVE  (a \o c)[j] = Garbage \/ \E l \in 1..Len(ls) : (a \o c)[j] = ls[l]
  <2>1. j = k \/ j \in 1..(k - 1)
    BY <1>1, <1>9
  <2> QED
    BY <1>10, <1>11, <2>1
<1>13. a \o c # << >>
  <2>1. k # 0 /\ Len(<< >>) = 0
    BY EmptySeq
  <2> QED
    BY <1>9, <2>1
<1>14. ASSUME Len(ls) = 1, cut # Garbage PROVE a \o c = ls
  <2>1. k = 1 /\ cut = ls[1]
    BY <1>14
  <2>2. ls \in Seq(Line(m)) /\ Len(a \o c) = Len(ls)
    BY <1>2, <1>9, <1>14, <2>1, SeqMonotonic
  <2>3. \A i \in 1..Len(a \o c) : (a \o c)[i] = ls[i]
    BY <1>9, <1>10, <2>1
  <2> QED
    BY <1>8, <2>2, <2>3, SeqEqual
<1> QED
  BY <1>8, <1>9, <1>10, <1>12, <1>13, <1>14, <1>6

\* What appendFileSync makes of the lines, of the files and of the causes.
LEMMA Appends ==
    ASSUME NEW m \in Nat, NEW ls \in Seq(Entry(m)), ls # << >>, NEW n \in Nat \ {0}, NEW o, NEW cs,
           lines \in Seq(Line(m)), FilesOK, n \in {Len(starts), Len(starts) + 1},
           causes \subseteq Causes, faults \in 0..MaxFaults, cs \subseteq {"overwritten"},
           AppendFile(n, ls, o, cs)
    PROVE  /\ o \in {"ok", "failed", "torn"}
           /\ lines' \in Seq(Line(m)) /\ FilesOK'
           /\ Len(starts) <= Len(starts') /\ n \in {Len(starts'), Len(starts') + 1}
           /\ causes' = causes \cup cs \cup ({o} \ {"ok"})
           /\ causes' \subseteq Causes /\ faults' \in 0..MaxFaults
           /\ "torn" \notin causes' =>
                  (o = "ok" /\ lines' = lines \o ls) \/ (o = "failed" /\ lines' = lines)
           /\ \A i \in 1..Len(lines') :
                  \/ lines'[i] = Garbage
                  \/ i <= Len(lines) /\ lines'[i] = lines[i]
                  \/ \E k \in 1..Len(ls) : lines'[i] = ls[k]
           /\ Entries' = 1..Len(lines') /\ Len(ls) = 1 =>
                  (o # "failed" /\ lines' = lines \o ls) \/ (o = "failed" /\ lines' = lines)
<1> DEFINE Origin(i) == \/ lines'[i] = Garbage
                        \/ i <= Len(lines) /\ lines'[i] = lines[i]
                        \/ \E k \in 1..Len(ls) : lines'[i] = ls[k]
<1>1. o \in {"ok", "failed", "torn"} /\ causes' = causes \cup cs \cup ({o} \ {"ok"})
  BY DEF AppendFile, Outcomes
<1>2. causes' \subseteq Causes /\ causes \subseteq causes'
  BY <1>1 DEF Causes
<1>3. faults' \in 0..MaxFaults
  <2>1. o = "ok" \/ n \in frozen \/ faults < MaxFaults
    BY DEF AppendFile, Outcomes
  <2> QED
    BY <2>1 DEF AppendFile
<1>4. ls \in Seq(Line(m)) /\ Len(ls) \in Nat /\ Len(lines) \in Nat /\ Len(starts) \in Nat
  <2>1. Entry(m) \subseteq Line(m)
    BY DEF Line
  <2> QED
    BY <2>1, SeqMonotonic, LenProperties DEF FilesOK
<1>5. CASE o = "ok"
  <2>1. Appended(n, ls, TRUE)
    BY <1>5 DEF AppendFile
  <2>2. /\ lines' \in Seq(Line(m))
        /\ n > Len(starts) \/ eol => lines' = lines \o ls
        /\ ~(n > Len(starts) \/ eol) => Len(lines) \in 1..Len(lines') /\ lines'[Len(lines)] = Garbage
        /\ \A i \in 1..Len(lines') : Origin(i)
        /\ starts' \in Seq(Nat) /\ Len(starts') = n
        /\ starts' # << >> /\ starts'[1] = 0 /\ starts'[Len(starts')] <= Len(lines')
        /\ eol' = TRUE
    BY <1>4, <2>1, Appending
  <2>3. "torn" \notin causes' => lines' = lines \o ls /\ Entries' = 1..Len(lines')
    <3>1. "torn" \notin causes' => eol /\ Entries = 1..Len(lines)
      BY <1>2 DEF FilesOK
    <3> QED
      BY <2>2, <3>1, Added
  <2>4. FilesOK'
    BY <2>2, <2>3 DEF FilesOK
  <2>5. Entries' = 1..Len(lines') => lines' = lines \o ls
    BY <2>2 DEF Entries
  <2>6. Len(starts) <= Len(starts') /\ n \in {Len(starts'), Len(starts') + 1}
    BY <1>4, <2>2
  <2> QED
    BY <1>1, <1>2, <1>3, <1>5, <2>2, <2>3, <2>4, <2>5, <2>6
<1>6. CASE o = "failed"
  <2>1. Failed(n)
    BY <1>6 DEF AppendFile
  <2>2. CASE UNCHANGED medium
    <3>1. lines' = lines /\ starts' = starts /\ eol' = eol
      BY <2>2 DEF medium
    <3>2. Entries' = Entries
      BY <3>1 DEF Entries
    <3>3. FilesOK'
      BY <1>2, <3>1, <3>2 DEF FilesOK
    <3>4. \A i \in 1..Len(lines') : Origin(i)
      BY <1>4, <3>1
    <3>5. Len(starts) <= Len(starts')
      BY <1>4, <3>1
    <3> QED
      BY <1>1, <1>2, <1>3, <1>6, <3>1, <3>3, <3>4, <3>5
  <2>3. CASE n > Len(starts) /\ Appended(n, << >>, TRUE)
    <3> DEFINE none == << >>
    <3>1. none \in Seq(Line(m)) /\ lines \o none = lines
      BY ConcatEmptySeq, EmptySeq
    <3> HIDE DEF none
    <3>2. Appended(n, none, TRUE)
      BY <2>3 DEF none
    <3>3. /\ lines' = lines \o none
          /\ starts' \in Seq(Nat) /\ Len(starts') = n
          /\ starts' # << >> /\ starts'[1] = 0 /\ starts'[Len(starts')] <= Len(lines')
          /\ eol' = TRUE
      BY <2>3, <3>1, <3>2, Appending
    <3>4. lines' = lines
      BY <3>1, <3>3
    <3>5. Entries' = Entries
      BY <3>4 DEF Entries
    <3>6. FilesOK'
      BY <1>2, <3>3, <3>4, <3>5 DEF FilesOK
    <3>7. \A i \in 1..Len(lines') : Origin(i)
      BY <1>4, <3>4
    <3>8. Len(starts) <= Len(starts') /\ n \in {Len(starts'), Len(starts') + 1}
      BY <1>4, <3>3
    <3> QED
      BY <1>1, <1>2, <1>3, <1>6, <3>4, <3>6, <3>7, <3>8
  <2> QED
    BY <2>1, <2>2, <2>3 DEF Failed
<1>7. CASE o = "torn"
  <2>1. Torn(n, ls) /\ "torn" \in causes'
    BY <1>1, <1>7 DEF AppendFile
  <2>2. PICK k \in 1..Len(ls) :
            \E cut \in {Garbage, ls[k]} : Appended(n, SubSeq(ls, 1, k - 1) \o <<cut>>, FALSE)
    BY <2>1 DEF Torn
  <2>3. PICK cut \in {Garbage, ls[k]} : Appended(n, SubSeq(ls, 1, k - 1) \o <<cut>>, FALSE)
    BY <2>2
  <2> DEFINE xs == CutAt(ls, k, cut)
  <2>4. xs = CutAt(ls, k, cut) /\ Appended(n, xs, FALSE)
    BY <2>3 DEF CutAt
  <2> HIDE DEF xs
  <2>5. /\ xs \in Seq(Line(m)) /\ Len(xs) = k /\ xs # << >> /\ xs[k] = cut
        /\ \A j \in 1..Len(xs) : xs[j] = Garbage \/ \E l \in 1..Len(ls) : xs[j] = ls[l]
        /\ Len(ls) = 1 /\ cut # Garbage => xs = ls
    BY <2>4, Cut
  <2>6. /\ lines' \in Seq(Line(m)) /\ Len(lines) <= Len(lines')
        /\ n > Len(starts) \/ eol => lines' = lines \o xs
        /\ ~(n > Len(starts) \/ eol) => Len(lines) \in 1..Len(lines') /\ lines'[Len(lines)] = Garbage
        /\ \A i \in 1..Len(lines') : \/ lines'[i] = Garbage
                                     \/ i <= Len(lines) /\ lines'[i] = lines[i]
                                     \/ \E j \in 1..Len(xs) : lines'[i] = xs[j]
        /\ starts' \in Seq(Nat) /\ Len(starts') = n
        /\ starts' # << >> /\ starts'[1] = 0 /\ starts'[Len(starts')] <= Len(lines')
        /\ eol' = FALSE
    BY <2>5, <2>4, Appending
  <2>7. ASSUME NEW i \in 1..Len(lines') PROVE Origin(i)
    <3>1. CASE \E j \in 1..Len(xs) : lines'[i] = xs[j]
      BY <2>5, <3>1
    <3> QED
      BY <2>6, <3>1
  <2>8. n > Len(starts) \/ eol =>
            Len(lines') = Len(lines) + k /\ Len(lines) + k \in 1..Len(lines') /\ lines'[Len(lines) + k] = cut
    <3>1. /\ Len(lines \o xs) = Len(lines) + Len(xs)
          /\ \A i \in 1..(Len(lines) + Len(xs)) :
                 (lines \o xs)[i] = IF i <= Len(lines) THEN lines[i] ELSE xs[i - Len(lines)]
      BY <2>5, ConcatProperties
    <3>2. /\ Len(lines) + k \in 1..(Len(lines) + Len(xs)) /\ ~(Len(lines) + k <= Len(lines))
          /\ Len(lines) + k - Len(lines) = k
      BY <1>4, <2>5
    <3> QED
      BY <2>5, <2>6, <3>1, <3>2
  <2>9. lines' # << >>
    <3>1. Len(lines') # 0
      BY <1>4, <2>6, <2>8
    <3> QED
      BY <3>1, EmptySeq
  <2>10. FilesOK'
    BY <2>1, <2>6, <2>9 DEF FilesOK
  <2>11. Entries' = 1..Len(lines') /\ Len(ls) = 1 => lines' = lines \o ls
    <3>1. Entries' = 1..Len(lines') => \A i \in 1..Len(lines') : lines'[i] # Garbage
      BY DEF Entries
    <3> QED
      BY <2>5, <2>6, <2>8, <3>1
  <2>12. Len(starts) <= Len(starts') /\ n \in {Len(starts'), Len(starts') + 1}
    BY <1>4, <2>6
  <2> QED
    BY <1>1, <1>2, <1>3, <1>7, <2>1, <2>6, <2>7, <2>10, <2>11, <2>12
<1> QED
  BY <1>1, <1>5, <1>6, <1>7

\* An append that cannot fail, to the one medium of a sink that has no other.
LEMMA Arrives ==
    ASSUME NEW m \in Nat, NEW ls \in Seq(Entry(m)), Base(m), kind \in {"memory", "http", "syslog"},
           Appended(1, ls, TRUE)
    PROVE  /\ lines' = lines \o ls /\ lines' \in Seq(Line(m))
           /\ StoredEvents' = StoredEvents \cup EventSet(ls)
           /\ Len(starts') = 1
           /\ causes \subseteq causes' => FilesOK'
<1>1. /\ lines \in Seq(Line(m)) /\ FilesOK /\ "torn" \notin causes /\ eol
      /\ segment = 1 /\ segment \in {Len(starts), Len(starts) + 1}
  BY DEF Base, Types, Places, SinkOK, FilesOK
<1>2. ls \in Seq(Line(m))
  <2>1. Entry(m) \subseteq Line(m)
    BY DEF Line
  <2> QED
    BY <2>1, SeqMonotonic
<1>3. /\ lines' \in Seq(Line(m)) /\ lines' = lines \o ls
      /\ starts' \in Seq(Nat) /\ Len(starts') = 1
      /\ starts' # << >> /\ starts'[1] = 0 /\ starts'[Len(starts')] <= Len(lines')
      /\ eol' = TRUE
  <2>1. 1 \in Nat \ {0} /\ 1 \in {Len(starts), Len(starts) + 1} /\ TRUE \in BOOLEAN
    BY <1>1
  <2> QED
    BY <1>1, <1>2, <2>1, Appending
<1>4. StoredEvents' = StoredEvents \cup EventSet(ls) /\ Entries' = 1..Len(lines')
  <2>1. Entries = 1..Len(lines)
    BY <1>1 DEF FilesOK
  <2> QED
    BY <1>1, <1>3, <2>1, Added
<1>5. FilesOK'
  BY <1>3, <1>4 DEF FilesOK
<1> QED
  BY <1>3, <1>4, <1>5

\* One of several flushes under way is over.
LEMMA Removed ==
    ASSUME NEW S, NEW s \in Seq(S), NEW i \in 1..Len(s)
    PROVE  /\ Without(s, i) \in Seq(S)
           /\ \A j \in 1..Len(Without(s, i)) : \E k \in 1..Len(s) : Without(s, i)[j] = s[k]
           /\ \A k \in 1..Len(s) : k # i => \E j \in 1..Len(Without(s, i)) : Without(s, i)[j] = s[k]
<1> DEFINE a == SubSeq(s, 1, i - 1)
           b == SubSeq(s, i + 1, Len(s))
<1>1. Len(s) \in Nat /\ i - 1 \in 0..Len(s)
  BY LenProperties
<1>2. a \in Seq(S) /\ Len(a) = i - 1 /\ \A j \in 1..(i - 1) : a[j] = s[j]
  BY <1>1, Prefix
<1>3. /\ b \in Seq(S) /\ Len(b) = Len(s) - i
      /\ \A j \in 1..(Len(s) - i) : b[j] = s[i + j]
  <2>1. i + 1 \in Int /\ Len(s) \in Int /\ \A k \in (i + 1)..Len(s) : s[k] \in S
    BY <1>1, ElementOfSeq
  <2>2. /\ b \in Seq(S)
        /\ Len(b) = IF i + 1 <= Len(s) THEN Len(s) - (i + 1) + 1 ELSE 0
        /\ \A j \in 1..(Len(s) - (i + 1) + 1) : b[j] = s[(i + 1) + j - 1]
    BY <2>1, SubSeqProperties
  <2> HIDE DEF b
  <2>3. Len(b) = Len(s) - i /\ Len(s) - (i + 1) + 1 = Len(s) - i
    BY <1>1, <2>2
  <2>4. \A j \in 1..(Len(s) - i) : (i + 1) + j - 1 = i + j
    BY <1>1
  <2> QED
    BY <2>2, <2>3, <2>4
<1> HIDE DEF a, b
<1>4. /\ a \o b \in Seq(S) /\ Len(a \o b) = Len(a) + Len(b)
      /\ \A j \in 1..(Len(a) + Len(b)) : (a \o b)[j] = IF j <= Len(a) THEN a[j] ELSE b[j - Len(a)]
  BY <1>2, <1>3, ConcatProperties
<1>5. \A k \in 1..(i - 1) : k \in 1..Len(a \o b) /\ k \in 1..Len(s) /\ (a \o b)[k] = s[k]
  <2>1. ASSUME NEW k \in 1..(i - 1)
        PROVE  k \in 1..(Len(a) + Len(b)) /\ k \in 1..Len(s) /\ k <= Len(a)
    BY <1>1, <1>2, <1>3
  <2> QED
    BY <1>2, <1>4, <2>1
<1>6. \A j \in 1..(Len(s) - i) :
          i - 1 + j \in 1..Len(a \o b) /\ i + j \in 1..Len(s) /\ (a \o b)[i - 1 + j] = s[i + j]
  <2>1. ASSUME NEW j \in 1..(Len(s) - i)
        PROVE  /\ i - 1 + j \in 1..(Len(a) + Len(b)) /\ i + j \in 1..Len(s)
               /\ ~(i - 1 + j <= Len(a)) /\ (i - 1 + j) - Len(a) = j
    BY <1>1, <1>2, <1>3
  <2>2. ASSUME NEW j \in 1..(Len(s) - i) PROVE (a \o b)[i - 1 + j] = b[j]
    BY <1>4, <2>1
  <2> QED
    BY <1>3, <1>4, <2>1, <2>2
<1>7. ASSUME NEW j \in 1..Len(a \o b) PROVE \E k \in 1..Len(s) : (a \o b)[j] = s[k]
  <2>1. j \in 1..(i - 1) \/ (j - (i - 1) \in 1..(Len(s) - i) /\ j = i - 1 + (j - (i - 1)))
    BY <1>1, <1>2, <1>3, <1>4
  <2> QED
    BY <1>5, <1>6, <2>1
<1>8. ASSUME NEW k \in 1..Len(s), k # i PROVE \E j \in 1..Len(a \o b) : (a \o b)[j] = s[k]
  <2>1. k \in 1..(i - 1) \/ (k - i \in 1..(Len(s) - i) /\ k = i + (k - i))
    BY <1>1, <1>8
  <2> QED
    BY <1>5, <1>6, <2>1
<1>9. Without(s, i) = a \o b
  BY DEF Without, a, b
<1> QED
  BY <1>4, <1>7, <1>8, <1>9
-----------------------------------------------------------------------------
(* Entries of a buffer *)

\* One event, sealed or not.
LEMMA OneEntry ==
    ASSUME NEW m \in Nat, NEW h \in Seq(1..m), NEW e \in 1..m
    PROVE  /\ chainHashOf(h, <<e>>) \in Seq(1..m)
           /\ Sealed(h, <<e>>) \in Seq(Entry(m)) /\ Len(Sealed(h, <<e>>)) = 1
           /\ Sealed(h, <<e>>) # << >>
           /\ Sealed(h, <<e>>)[1].ev = e /\ Sealed(h, <<e>>)[1].hash = chainHashOf(h, <<e>>)
           /\ EventSet(Sealed(h, <<e>>)) = {e}
           /\ Unsealed(e) \in Entry(m) /\ Unsealed(e).ev = e
<1> DEFINE o == <<e>>
<1>1. o \in Seq(1..m) /\ Len(o) = 1 /\ o[1] = e
  OBVIOUS
<1> HIDE DEF o
<1>2. chainHashOf(h, o) \in Seq(1..m)
  BY <1>1, Chaining
<1>3. SubSeq(o, 1, 1) = o
  BY <1>1, SubSeqFull
<1>4. /\ Sealed(h, o) \in Seq(Entry(m)) /\ Len(Sealed(h, o)) = Len(o)
      /\ \A i \in 1..Len(o) : /\ Sealed(h, o)[i].ev = o[i]
                              /\ Sealed(h, o)[i].hash = chainHashOf(h, SubSeq(o, 1, i))
  BY <1>1, SealedType
<1>5. Sealed(h, o)[1].ev = e /\ Sealed(h, o)[1].hash = chainHashOf(h, o)
  <2>1. 1 \in 1..Len(o)
    BY <1>1
  <2>2. Sealed(h, o)[1].ev = o[1] /\ Sealed(h, o)[1].hash = chainHashOf(h, SubSeq(o, 1, 1))
    BY <1>4, <2>1
  <2> QED
    BY <1>1, <1>3, <2>2
<1>6. Sealed(h, o) # << >>
  <2>1. Len(Sealed(h, o)) # 0 /\ Len(<< >>) = 0
    BY <1>1, <1>4, EmptySeq
  <2> QED
    BY <2>1
<1>7. EventSet(Sealed(h, o)) = {e}
  BY <1>1, <1>4, <1>5 DEF EventSet
<1>8. Unsealed(e) \in Entry(m) /\ Unsealed(e).ev = e
  BY EmptySeq DEF Unsealed, Entry
<1> QED
  BY <1>1, <1>2, <1>4, <1>5, <1>6, <1>7, <1>8 DEF o

\* The events of two parts.
LEMMA EventsConcat ==
    ASSUME NEW m \in Nat, NEW s \in Seq(Entry(m)), NEW t \in Seq(Entry(m))
    PROVE  /\ s \o t \in Seq(Entry(m)) /\ Len(s \o t) = Len(s) + Len(t)
           /\ EventSet(s \o t) = EventSet(s) \cup EventSet(t)
           /\ \A i \in 1..Len(s \o t) : \/ \E j \in 1..Len(s) : (s \o t)[i] = s[j]
                                        \/ \E j \in 1..Len(t) : (s \o t)[i] = t[j]
<1>1. Len(s) \in Nat /\ Len(t) \in Nat
  BY LenProperties
<1>2. /\ s \o t \in Seq(Entry(m)) /\ Len(s \o t) = Len(s) + Len(t)
      /\ \A i \in 1..(Len(s) + Len(t)) : (s \o t)[i] = IF i <= Len(s) THEN s[i] ELSE t[i - Len(s)]
  BY ConcatProperties
<1>3. \A j \in 1..Len(s) : j \in 1..Len(s \o t) /\ (s \o t)[j] = s[j]
  BY <1>1, <1>2
<1>4. \A j \in 1..Len(t) : Len(s) + j \in 1..Len(s \o t) /\ (s \o t)[Len(s) + j] = t[j]
  <2>1. ASSUME NEW j \in 1..Len(t)
        PROVE  /\ Len(s) + j \in 1..(Len(s) + Len(t)) /\ ~(Len(s) + j <= Len(s))
               /\ Len(s) + j - Len(s) = j
    BY <1>1
  <2> QED
    BY <1>2, <2>1
<1>5. ASSUME NEW i \in 1..Len(s \o t)
      PROVE  \/ \E j \in 1..Len(s) : (s \o t)[i] = s[j]
             \/ \E j \in 1..Len(t) : (s \o t)[i] = t[j]
  <2>1. i \in 1..Len(s) \/ (i - Len(s) \in 1..Len(t) /\ i = Len(s) + (i - Len(s)))
    BY <1>1, <1>2
  <2> QED
    BY <1>3, <1>4, <2>1
<1> HIDE DEF EventSet
<1>6. EventSet(s \o t) = EventSet(s) \cup EventSet(t)
  BY <1>3, <1>4, <1>5 DEF EventSet
<1> QED
  BY <1>2, <1>5, <1>6

\* A buffer with one event more.
LEMMA EventsAppend ==
    ASSUME NEW m \in Nat, NEW s \in Seq(Entry(m)), NEW x \in Entry(m)
    PROVE  /\ Append(s, x) \in Seq(Entry(m)) /\ Len(Append(s, x)) = Len(s) + 1
           /\ Append(s, x) # << >>
           /\ EventSet(Append(s, x)) = EventSet(s) \cup {x.ev}
<1>1. Len(s) \in Nat
  BY LenProperties
<1>2. /\ Append(s, x) \in Seq(Entry(m)) /\ Append(s, x) # << >> /\ Len(Append(s, x)) = Len(s) + 1
      /\ \A i \in 1..Len(s) : Append(s, x)[i] = s[i]
      /\ Append(s, x)[Len(s) + 1] = x
  BY AppendProperties
<1>3. \A i \in 1..(Len(s) + 1) : i \in 1..Len(s) \/ i = Len(s) + 1
  BY <1>1
<1>4. Len(s) + 1 \in 1..(Len(s) + 1) /\ \A i \in 1..Len(s) : i \in 1..(Len(s) + 1)
  BY <1>1
<1>5. EventSet(Append(s, x)) = EventSet(s) \cup {x.ev}
  BY <1>2, <1>3, <1>4 DEF EventSet
<1> QED
  BY <1>2, <1>5
-----------------------------------------------------------------------------
(* Every action keeps the types, the files and what belongs to which sink *)

\* The state speaks of more events.
LEMMA BaseGrows ==
    ASSUME NEW n \in Nat, NEW m \in Nat, n <= m, Base(n)
    PROVE  Base(m)
BY Wider DEF Base, Types

\* An acknowledged write adds its event.
LEMMA Acknowledged ==
    ASSUME NEW m \in Nat, NEW e \in 0..m, NEW ok, acked \subseteq 1..m, Acknowledge(e, ok)
    PROVE  acked' \subseteq 1..m /\ acked' \subseteq acked \cup ({e} \ {0})
<1>1. {e} \ {0} \subseteq 1..m
  OBVIOUS
<1> QED
  BY <1>1 DEF Acknowledge

\* The memory sink.
LEMMA MemoryBase ==
    ASSUME NEW m \in Nat, NEW e \in 1..m, Base(m), UNCHANGED kind, MemoryWrite(e)
    PROVE  Base(m)'
<1>1. kind = "memory" /\ lastHash \in Seq(1..m) /\ acked \subseteq 1..m
  BY DEF MemoryWrite, Base, Types
<1>2. Sealed(lastHash, <<e>>) \in Seq(Entry(m)) /\ chainHashOf(lastHash, <<e>>) \in Seq(1..m)
  BY <1>1, OneEntry
<1>3. lines' \in Seq(Line(m)) /\ Len(starts') = 1 /\ FilesOK'
  BY <1>1, <1>2, Arrives DEF MemoryWrite
<1>4. acked' \subseteq 1..m
  <2>1. e \in 0..m
    OBVIOUS
  <2> QED
    BY <1>1, <2>1, Acknowledged DEF MemoryWrite
<1>5. Types(m)'
  BY <1>2, <1>3, <1>4 DEF MemoryWrite, Base, Types
<1>6. SinkOK'
  BY DEF MemoryWrite, Base, SinkOK
<1>7. Places'
  <2>1. segment = 1 /\ gone = 0 /\ frozen = {}
    BY <1>1 DEF Base, SinkOK
  <2>2. gone' \in 0..Len(starts') /\ segment' \in {Len(starts'), Len(starts') + 1} /\ segment' # 0
    BY <1>3, <2>1 DEF MemoryWrite
  <2> QED
    BY <2>1, <2>2 DEF MemoryWrite, Base, Places
<1> QED
  BY <1>3, <1>5, <1>6, <1>7 DEF Base

\* The event log.
LEMMA EventLogBase ==
    ASSUME NEW m \in Nat, NEW e \in 1..m, Base(m), UNCHANGED kind, EventLogAppend(e)
    PROVE  Base(m)'
<1>1. /\ kind = "eventlog" /\ lastHash \in Seq(1..m) /\ acked \subseteq 1..m
      /\ lines \in Seq(Line(m)) /\ FilesOK /\ causes \subseteq Causes /\ faults \in 0..MaxFaults
      /\ segment = 1 /\ gone = 0 /\ frozen = {} /\ segment \in {Len(starts), Len(starts) + 1}
  BY DEF EventLogAppend, Base, Types, Places, SinkOK
<1> DEFINE ls == Sealed(lastHash, <<e>>)
           n  == 1
<1>2. ls \in Seq(Entry(m)) /\ ls # << >> /\ chainHashOf(lastHash, <<e>>) \in Seq(1..m)
  BY <1>1, OneEntry
<1>3. PICK o \in Outcomes(1) :
          /\ AppendFile(n, ls, o, {})
          /\ lastHash' = IF o = "ok" THEN chainHashOf(lastHash, <<e>>) ELSE lastHash
  BY DEF EventLogAppend
<1>4. /\ lines' \in Seq(Line(m)) /\ FilesOK' /\ n \in {Len(starts'), Len(starts') + 1}
      /\ causes' \subseteq Causes /\ faults' \in 0..MaxFaults
  <2>1. n \in Nat \ {0} /\ n \in {Len(starts), Len(starts) + 1} /\ {} \subseteq {"overwritten"}
    BY <1>1
  <2> HIDE DEF ls, n
  <2> QED
    BY <1>1, <1>2, <1>3, <2>1, Appends
<1>5. acked' \subseteq 1..m
  <2>1. e \in 0..m
    OBVIOUS
  <2> QED
    BY <1>1, <2>1, Acknowledged DEF EventLogAppend
<1>6. Types(m)'
  BY <1>1, <1>2, <1>3, <1>4, <1>5 DEF EventLogAppend, Base, Types
<1>7. SinkOK'
  BY <1>1 DEF EventLogAppend, Base, SinkOK
<1>8. Places'
  <2>1. gone' \in 0..Len(starts') /\ segment' \in {Len(starts'), Len(starts') + 1} /\ segment' # 0
    <3>1. Len(starts') \in Nat
      BY <1>4, LenProperties DEF FilesOK
    <3> QED
      BY <1>1, <1>4, <3>1 DEF EventLogAppend
  <2> QED
    BY <1>1, <1>4, <2>1 DEF EventLogAppend, Base, Places
<1> QED
  BY <1>4, <1>6, <1>7, <1>8 DEF Base

\* The file a rotation leaves to append to.
LEMMA Rotating ==
    ASSUME NEW m \in Nat, Base(m), NEW r \in Rotations
    PROVE  /\ r.seg \in {Len(starts), Len(starts) + 1} /\ r.seg \in Nat \ {0}
           /\ r.gone \in 0..Len(starts) /\ r.cs \subseteq {"overwritten"}
           /\ r.gone = gone \/ r.cs = {"overwritten"}
<1>1. /\ segment \in {Len(starts), Len(starts) + 1} /\ segment # 0 /\ gone \in 0..Len(starts)
      /\ Len(starts) \in Nat
  BY LenProperties DEF Base, Places, FilesOK
<1>2. CASE r = [seg |-> segment, gone |-> gone, cs |-> {}]
  BY <1>1, <1>2
<1>3. CASE /\ segment <= Len(starts)
           /\ r = IF segment - gone > MaxRotated
                  THEN [seg |-> segment + 1, gone |-> gone + 1, cs |-> {"overwritten"}]
                  ELSE [seg |-> segment + 1, gone |-> gone, cs |-> {}]
  <2>1. r.seg = segment + 1 /\ segment = Len(starts)
    BY <1>1, <1>3
  <2>2. CASE segment - gone > MaxRotated
    BY <1>1, <1>3, <2>1, <2>2
  <2>3. CASE ~(segment - gone > MaxRotated)
    BY <1>1, <1>3, <2>1, <2>3
  <2> QED
    BY <2>2, <2>3
<1> QED
  <2>1. Size(segment) >= SegmentCap => segment <= Len(starts)
    BY <1>1 DEF Size
  <2> QED
    BY <1>2, <1>3, <2>1 DEF Rotations

\* A flush of the file sink.
LEMMA FileFlushBase ==
    ASSUME NEW m \in Nat, NEW buf \in Seq(Entry(m)), buf # << >>, NEW e \in 0..m, Base(m),
           kind = "file", UNCHANGED <<kind, frozen, flights, crashed>>, FileFlush(buf, e)
    PROVE  Base(m)'
<1>1. /\ lastHash \in Seq(1..m) /\ acked \subseteq 1..m /\ lines \in Seq(Line(m)) /\ FilesOK
      /\ causes \subseteq Causes /\ faults \in 0..MaxFaults /\ Len(starts) \in Nat
      /\ frozen \subseteq 1..Len(starts)
  BY LenProperties DEF Base, Types, Places, FilesOK
<1> DEFINE ls == Sealed(lastHash, EventsOf(buf))
<1>2. EventsOf(buf) \in Seq(1..m) /\ Len(EventsOf(buf)) = Len(buf) /\ Len(buf) \in Nat \ {0}
  BY EventsOfType, EmptySeq
<1>3. ls \in Seq(Entry(m)) /\ ls # << >> /\ chainHashOf(lastHash, EventsOf(buf)) \in Seq(1..m)
  <2>1. ls \in Seq(Entry(m)) /\ Len(ls) = Len(buf) /\ chainHashOf(lastHash, EventsOf(buf)) \in Seq(1..m)
    BY <1>1, <1>2, SealedType, Chaining
  <2>2. Len(ls) # 0 /\ Len(<< >>) = 0
    BY <1>2, <2>1, EmptySeq
  <2> QED
    BY <2>1, <2>2
<1>4. PICK r \in Rotations : \E o \in Outcomes(r.seg) :
        /\ AppendFile(r.seg, ls, o, r.cs)
        /\ segment' = r.seg
        /\ gone' = r.gone
        /\ lastHash' = chainHashOf(lastHash, EventsOf(buf))
        /\ buffer' = IF o = "ok" THEN << >> ELSE buf
        /\ Acknowledge(e, o = "ok")
  BY DEF FileFlush
<1>5. PICK o \in Outcomes(r.seg) :
        /\ AppendFile(r.seg, ls, o, r.cs)
        /\ segment' = r.seg
        /\ gone' = r.gone
        /\ lastHash' = chainHashOf(lastHash, EventsOf(buf))
        /\ buffer' = IF o = "ok" THEN << >> ELSE buf
        /\ Acknowledge(e, o = "ok")
  BY <1>4
<1> HIDE DEF ls
<1>6. /\ r.seg \in {Len(starts), Len(starts) + 1} /\ r.seg \in Nat \ {0}
      /\ r.gone \in 0..Len(starts) /\ r.cs \subseteq {"overwritten"}
      /\ r.gone = gone \/ r.cs = {"overwritten"}
  BY Rotating
<1>7. /\ lines' \in Seq(Line(m)) /\ FilesOK'
      /\ Len(starts) <= Len(starts') /\ r.seg \in {Len(starts'), Len(starts') + 1}
      /\ causes' = causes \cup r.cs \cup ({o} \ {"ok"})
      /\ causes' \subseteq Causes /\ faults' \in 0..MaxFaults
  BY <1>1, <1>3, <1>5, <1>6, Appends
<1>8. acked' \subseteq 1..m
  BY <1>1, <1>5, Acknowledged
<1>9. Types(m)'
  <2>1. buffer' \in Seq(Entry(m))
    BY <1>5, EmptySeq
  <2> QED
    BY <1>3, <1>5, <1>7, <1>8, <2>1 DEF Base, Types
<1>10. SinkOK'
  <2>1. gone' # 0 => "overwritten" \in causes'
    BY <1>5, <1>6, <1>7 DEF Base, SinkOK
  <2> QED
    BY <2>1 DEF Base, SinkOK
<1>11. Places'
  <2>1. Len(starts') \in Nat
    BY <1>7, LenProperties DEF FilesOK
  <2>2. gone' \in 0..Len(starts') /\ frozen' \subseteq 1..Len(starts')
    BY <1>1, <1>5, <1>6, <1>7, <2>1
  <2> QED
    BY <1>5, <1>6, <1>7, <2>2 DEF Base, Places
<1> QED
  BY <1>7, <1>9, <1>10, <1>11 DEF Base

\* A write of the file sink.
LEMMA FileBase ==
    ASSUME NEW m \in Nat, NEW e \in 1..m, Base(m), UNCHANGED kind, FileWrite(e)
    PROVE  Base(m)'
<1> DEFINE buf == Append(buffer, Unsealed(e))
<1>1. buf \in Seq(Entry(m)) /\ buf # << >>
  <2>1. buffer \in Seq(Entry(m)) /\ lastHash \in Seq(1..m)
    BY DEF Base, Types
  <2>2. Unsealed(e) \in Entry(m)
    BY <2>1, OneEntry
  <2> QED
    BY <2>1, <2>2, EventsAppend
<1>2. e \in 0..m
  OBVIOUS
<1>3. CASE Len(buf) >= FlushSize
  <2>1. FileFlush(buf, e) /\ kind = "file" /\ UNCHANGED <<frozen, flights, crashed>>
    BY <1>3 DEF FileWrite
  <2> HIDE DEF buf
  <2> QED
    BY <1>1, <1>2, <2>1, FileFlushBase
<1>4. CASE ~(Len(buf) >= FlushSize)
  <2>1. /\ kind = "file" /\ buffer' = buf /\ Acknowledge(e, TRUE)
        /\ UNCHANGED <<lastHash, medium, gone, segment, causes, faults, frozen, flights, crashed>>
    BY <1>4 DEF FileWrite
  <2> HIDE DEF buf
  <2>2. acked' \subseteq 1..m
    BY <1>2, <2>1, Acknowledged DEF Base, Types
  <2>3. Types(m)'
    BY <1>1, <2>1, <2>2 DEF Base, Types, medium
  <2> QED
    BY <2>1, <2>3 DEF Base, Places, FilesOK, SinkOK, medium, Entries
<1> QED
  BY <1>3, <1>4

\* The segment a flush of the WORM sink appends to.
LEMMA NextSegment ==
    ASSUME NEW m \in Nat, Base(m)
    PROVE  WormSegment \in {Len(starts), Len(starts) + 1} /\ WormSegment \in Nat \ {0}
<1>1. /\ segment \in {Len(starts), Len(starts) + 1} /\ segment # 0 /\ Len(starts) \in Nat
      /\ gone \in 0..Len(starts)
  BY LenProperties DEF Base, Places, FilesOK
<1>2. Exists(segment) => segment <= Len(starts)
  BY <1>1 DEF Exists, Directory
<1> QED
  BY <1>1, <1>2 DEF WormSegment

\* A flush of the WORM sink.
LEMMA WormFlushBase ==
    ASSUME NEW m \in Nat, NEW buf \in Seq(Entry(m)), buf # << >>, NEW e \in 0..m, Base(m),
           kind = "worm", lastHash' \in Seq(1..m), UNCHANGED <<kind, frozen, flights, crashed>>,
           WormFlush(buf, e)
    PROVE  Base(m)'
<1>1. /\ acked \subseteq 1..m /\ lines \in Seq(Line(m)) /\ FilesOK
      /\ causes \subseteq Causes /\ faults \in 0..MaxFaults /\ Len(starts) \in Nat
      /\ frozen \subseteq 1..Len(starts) /\ gone \in 0..Len(starts)
  BY LenProperties DEF Base, Types, Places, FilesOK
<1> DEFINE n == WormSegment
<1>2. n \in {Len(starts), Len(starts) + 1} /\ n \in Nat \ {0} /\ segment' = n /\ gone' = gone
  BY NextSegment DEF WormFlush
<1>3. CASE WormRefused(e)
  <2>1. /\ buffer' = << >> /\ causes' = causes \cup {"refused"} /\ Acknowledge(e, FALSE)
        /\ UNCHANGED <<medium, faults>>
    BY <1>3 DEF WormRefused
  <2> HIDE DEF n
  <2>2. acked' \subseteq 1..m /\ buffer' \in Seq(Entry(m))
    BY <1>1, <2>1, Acknowledged, EmptySeq
  <2>3. Types(m)'
    BY <2>1, <2>2 DEF Base, Types, medium
  <2>4. Places'
    BY <1>1, <1>2, <2>1 DEF Base, Places, medium, Causes
  <2>5. FilesOK'
    BY <2>1 DEF Base, FilesOK, medium, Entries
  <2>6. SinkOK'
    BY <1>2, <2>1 DEF Base, SinkOK
  <2> QED
    BY <2>3, <2>4, <2>5, <2>6 DEF Base
<1>4. CASE WormAppended(buf, e)
  <2>1. PICK o \in Outcomes(n) :
            /\ AppendFile(n, buf, o, {})
            /\ buffer' = IF o = "ok" THEN << >> ELSE buf
            /\ Acknowledge(e, o = "ok")
    BY <1>4 DEF WormAppended
  <2> HIDE DEF n
  <2>2. /\ lines' \in Seq(Line(m)) /\ FilesOK'
        /\ Len(starts) <= Len(starts') /\ n \in {Len(starts'), Len(starts') + 1}
        /\ causes' \subseteq Causes /\ faults' \in 0..MaxFaults
    BY <1>1, <1>2, <2>1, Appends
  <2>3. acked' \subseteq 1..m /\ buffer' \in Seq(Entry(m))
    BY <1>1, <2>1, Acknowledged, EmptySeq
  <2>4. Types(m)'
    BY <2>2, <2>3 DEF Base, Types
  <2>5. Places'
    <3>1. Len(starts') \in Nat
      BY <2>2, LenProperties DEF FilesOK
    <3>2. gone' \in 0..Len(starts') /\ frozen' \subseteq 1..Len(starts')
      BY <1>1, <1>2, <2>2, <3>1
    <3> QED
      BY <1>2, <2>2, <3>2 DEF Base, Places
  <2>6. SinkOK'
    BY <1>2 DEF Base, SinkOK
  <2> QED
    BY <2>2, <2>4, <2>5, <2>6 DEF Base
<1> QED
  BY <1>3, <1>4 DEF WormFlush

\* A write of the WORM sink.
LEMMA WormBase ==
    ASSUME NEW m \in Nat, NEW e \in 1..m, Base(m), UNCHANGED kind, WormWrite(e)
    PROVE  Base(m)'
<1> DEFINE buf == buffer \o Sealed(lastHash, <<e>>)
<1>1. buf \in Seq(Entry(m)) /\ buf # << >> /\ chainHashOf(lastHash, <<e>>) \in Seq(1..m)
  <2>1. buffer \in Seq(Entry(m)) /\ lastHash \in Seq(1..m) /\ Len(buffer) \in Nat
    BY LenProperties DEF Base, Types
  <2> DEFINE x == Sealed(lastHash, <<e>>)
  <2>2. x \in Seq(Entry(m)) /\ Len(x) = 1 /\ chainHashOf(lastHash, <<e>>) \in Seq(1..m)
    BY <2>1, OneEntry
  <2> HIDE DEF x
  <2>3. buffer \o x \in Seq(Entry(m)) /\ Len(buffer \o x) = Len(buffer) + 1
    BY <2>1, <2>2, ConcatProperties
  <2>4. Len(buffer \o x) # 0 /\ Len(<< >>) = 0
    BY <2>1, <2>3, EmptySeq
  <2> QED
    BY <2>2, <2>3, <2>4 DEF x
<1>2. e \in 0..m
  OBVIOUS
<1>3. kind = "worm" /\ lastHash' \in Seq(1..m) /\ UNCHANGED <<frozen, flights, crashed>>
  BY <1>1 DEF WormWrite
<1>4. CASE Len(buf) >= FlushSize
  <2>1. WormFlush(buf, e)
    BY <1>4 DEF WormWrite
  <2> HIDE DEF buf
  <2> QED
    BY <1>1, <1>2, <1>3, <2>1, WormFlushBase
<1>5. CASE ~(Len(buf) >= FlushSize)
  <2>1. buffer' = buf /\ Acknowledge(e, TRUE) /\ UNCHANGED <<medium, gone, segment, causes, faults>>
    BY <1>5 DEF WormWrite
  <2> HIDE DEF buf
  <2>2. acked' \subseteq 1..m
    BY <1>2, <2>1, Acknowledged DEF Base, Types
  <2>3. Types(m)'
    BY <1>1, <1>3, <2>1, <2>2 DEF Base, Types, medium
  <2> QED
    BY <1>3, <2>1, <2>3 DEF Base, Places, FilesOK, SinkOK, medium, Entries
<1> QED
  BY <1>4, <1>5

\* A flush that begins to wait.
LEMMA FlightType ==
    ASSUME NEW m \in Nat, NEW out \in Seq(Entry(m)), NEW todo \in Seq(1..m), NEW e \in 0..m
    PROVE  Flight(out, todo, e) \in Flights(m)
BY DEF Flight, Flights

\* A write that only fills the buffer of a network sink.
LEMMA BufferBase ==
    ASSUME NEW m \in Nat, NEW e \in 1..m, Base(m), kind \in Networks, UNCHANGED kind,
           BufferOnly(e), UNCHANGED <<medium, gone, segment, frozen, crashed, causes, faults>>
    PROVE  Base(m)'
<1>1. buffer' \in Seq(Entry(m)) /\ UNCHANGED <<lastHash, flights>>
  <2>1. buffer \in Seq(Entry(m)) /\ lastHash \in Seq(1..m)
    BY DEF Base, Types
  <2>2. Unsealed(e) \in Entry(m)
    BY <2>1, OneEntry
  <2>3. Append(buffer, Unsealed(e)) \in Seq(Entry(m))
    BY <2>1, <2>2, EventsAppend
  <2> QED
    BY <2>3 DEF BufferOnly
<1>2. acked' \subseteq 1..m
  <2>1. e \in 0..m
    OBVIOUS
  <2> QED
    BY <2>1, Acknowledged DEF BufferOnly, Base, Types
<1>3. Types(m)'
  BY <1>1, <1>2 DEF Base, Types, medium
<1> QED
  BY <1>1, <1>3 DEF Base, Places, FilesOK, SinkOK, medium, Entries, Networks

\* A flush of the http sink, up to the fetch.
LEMMA HttpFlushBase ==
    ASSUME NEW m \in Nat, NEW buf \in Seq(Entry(m)), NEW e \in 0..m, Base(m), kind = "http",
           HttpFlush(buf, e), UNCHANGED <<kind, medium, gone, segment, frozen, acked, crashed, causes, faults>>
    PROVE  Base(m)'
<1>1. lastHash \in Seq(1..m) /\ flights \in Seq(Flights(m))
  BY DEF Base, Types
<1>2. EventsOf(buf) \in Seq(1..m)
  BY EventsOfType
<1>3. Sealed(lastHash, EventsOf(buf)) \in Seq(Entry(m)) /\ chainHashOf(lastHash, EventsOf(buf)) \in Seq(1..m)
  BY <1>1, <1>2, SealedType, Chaining
<1>4. << >> \in Seq(1..m) /\ << >> \in Seq(Entry(m))
  BY EmptySeq
<1>5. Flight(Sealed(lastHash, EventsOf(buf)), << >>, e) \in Flights(m)
  BY <1>3, <1>4, FlightType
<1>6. flights' \in Seq(Flights(m)) /\ lastHash' \in Seq(1..m) /\ buffer' \in Seq(Entry(m))
  <2>1. Append(flights, Flight(Sealed(lastHash, EventsOf(buf)), << >>, e)) \in Seq(Flights(m))
    BY <1>1, <1>5, AppendProperties
  <2> QED
    BY <1>3, <1>4, <2>1 DEF HttpFlush
<1>7. Types(m)'
  BY <1>6 DEF Base, Types, medium
<1> QED
  BY <1>7 DEF Base, Places, FilesOK, SinkOK, medium, Entries, Networks

\* A flush of the syslog sink, up to its first send.
LEMMA SyslogFlushBase ==
    ASSUME NEW m \in Nat, NEW buf \in Seq(Entry(m)), buf # << >>, NEW e \in 0..m, Base(m), kind = "syslog",
           SyslogFlush(buf, e), UNCHANGED <<kind, medium, gone, segment, frozen, acked, crashed, causes, faults>>
    PROVE  Base(m)'
<1>1. lastHash \in Seq(1..m) /\ flights \in Seq(Flights(m))
  BY DEF Base, Types
<1>2. EventsOf(buf) \in Seq(1..m) /\ EventsOf(buf) # << >> /\ buf[1].ev \in 1..m
  <2>1. Len(buf) \in Nat \ {0} /\ Len(<< >>) = 0
    BY EmptySeq
  <2>2. EventsOf(buf) \in Seq(1..m) /\ Len(EventsOf(buf)) = Len(buf)
    BY EventsOfType
  <2>3. 1 \in 1..Len(buf)
    BY <2>1
  <2>4. buf[1] \in Entry(m)
    BY <2>3, ElementOfSeq
  <2>5. buf[1].ev \in 1..m
    BY <2>4, EntryFields
  <2> QED
    BY <2>1, <2>2, <2>5
<1>3. Tail(EventsOf(buf)) \in Seq(1..m)
  BY <1>2, HeadTailProperties
<1> DEFINE d == buf[1].ev
<1>4. Sealed(lastHash, <<d>>) \in Seq(Entry(m)) /\ chainHashOf(lastHash, <<d>>) \in Seq(1..m)
  <2>1. d \in 1..m
    BY <1>2
  <2> HIDE DEF d
  <2> QED
    BY <1>1, <2>1, OneEntry
<1>5. Flight(Sealed(lastHash, <<d>>), Tail(EventsOf(buf)), e) \in Flights(m)
  BY <1>3, <1>4, FlightType
<1>6. flights' \in Seq(Flights(m)) /\ lastHash' \in Seq(1..m) /\ buffer' \in Seq(Entry(m))
  <2>1. Append(flights, Flight(Sealed(lastHash, <<d>>), Tail(EventsOf(buf)), e)) \in Seq(Flights(m))
    BY <1>1, <1>5, AppendProperties
  <2> QED
    BY <1>4, <2>1, EmptySeq DEF SyslogFlush
<1>7. Types(m)'
  BY <1>6 DEF Base, Types, medium
<1> QED
  BY <1>7 DEF Base, Places, FilesOK, SinkOK, medium, Entries, Networks

\* A write of a network sink.
LEMMA NetworkBase ==
    ASSUME NEW m \in Nat, NEW e \in 1..m, Base(m), UNCHANGED kind, HttpWrite(e) \/ SyslogWrite(e)
    PROVE  Base(m)'
<1> DEFINE buf == Append(buffer, Unsealed(e))
<1>1. buf \in Seq(Entry(m)) /\ buf # << >> /\ e \in 0..m
  <2>1. buffer \in Seq(Entry(m)) /\ lastHash \in Seq(1..m)
    BY DEF Base, Types
  <2>2. Unsealed(e) \in Entry(m)
    BY <2>1, OneEntry
  <2>3. e \in 0..m
    OBVIOUS
  <2> QED
    BY <2>1, <2>2, <2>3, EventsAppend
<1>2. UNCHANGED <<medium, gone, segment, frozen, crashed, causes, faults>> /\ kind \in Networks
  BY DEF HttpWrite, SyslogWrite, Networks
<1>3. CASE BufferOnly(e)
  BY <1>2, <1>3, BufferBase
<1>4. CASE kind = "http" /\ HttpFlush(buf, e) /\ UNCHANGED acked
  <2> HIDE DEF buf
  <2> QED
    BY <1>1, <1>2, <1>4, HttpFlushBase
<1>5. CASE kind = "syslog" /\ SyslogFlush(buf, e) /\ UNCHANGED acked
  <2> HIDE DEF buf
  <2> QED
    BY <1>1, <1>2, <1>5, SyslogFlushBase
<1> QED
  BY <1>3, <1>4, <1>5 DEF HttpWrite, SyslogWrite

\* A recorded event.
LEMMA RecordBase ==
    ASSUME BaseInv, record
    PROVE  BaseInv' /\ Base(nextEvent) /\ nextEvent \in Nat \ {0}
<1>1. PICK m \in Nat : m = nextEvent
  BY DEF BaseInv
<1>2. /\ nextEvent' = m + 1 /\ nextEvent' \in 1..(MaxEvents + 1) /\ UNCHANGED kind
      /\ m \in 1..m /\ m - 1 \in Nat /\ m - 1 <= m
  BY <1>1 DEF BaseInv, record
<1>3. Base(m)
  BY <1>1, <1>2, BaseGrows DEF BaseInv
<1>4. \/ MemoryWrite(m) \/ EventLogAppend(m) \/ FileWrite(m) \/ WormWrite(m)
      \/ HttpWrite(m) \/ SyslogWrite(m)
  BY <1>1 DEF record
<1>5. Base(m)'
  BY <1>2, <1>3, <1>4, MemoryBase, EventLogBase, FileBase, WormBase, NetworkBase
<1>6. nextEvent' - 1 = m
  BY <1>2
<1>7. BaseInv'
  BY <1>2, <1>5, <1>6 DEF BaseInv
<1> QED
  BY <1>1, <1>2, <1>3, <1>7

\* A flush, and a close.
LEMMA FlushBase ==
    ASSUME NEW m \in Nat, Base(m), flush
    PROVE  Base(m)'
<1>1. /\ buffer \in Seq(Entry(m)) /\ buffer # << >> /\ lastHash \in Seq(1..m) /\ 0 \in 0..m
      /\ UNCHANGED <<kind, frozen, crashed>>
  BY DEF flush, Base, Types
<1>2. CASE kind = "file" /\ FileFlush(buffer, 0) /\ UNCHANGED flights
  BY <1>1, <1>2, FileFlushBase
<1>3. CASE kind = "worm" /\ WormFlush(buffer, 0) /\ UNCHANGED <<lastHash, flights>>
  BY <1>1, <1>3, WormFlushBase
<1>4. CASE kind = "http" /\ HttpFlush(buffer, 0) /\ UNCHANGED <<medium, gone, segment, acked, causes, faults>>
  BY <1>1, <1>4, HttpFlushBase
<1>5. CASE kind = "syslog" /\ SyslogFlush(buffer, 0) /\ UNCHANGED <<medium, gone, segment, acked, causes, faults>>
  BY <1>1, <1>5, SyslogFlushBase
<1> QED
  BY <1>2, <1>3, <1>4, <1>5 DEF flush

\* The operator's actions on segments.
LEMMA OperatorBase ==
    ASSUME NEW m \in Nat, Base(m), makeSegmentImmutable \/ Archive
    PROVE  Base(m)'
<1>1. /\ kind = "worm"
      /\ UNCHANGED <<kind, buffer, lastHash, medium, segment, flights, acked, crashed, causes, faults>>
  BY DEF makeSegmentImmutable, Archive
<1>2. gone' \in 0..Len(starts') /\ frozen' \subseteq 1..Len(starts')
  <2>1. Len(starts) \in Nat /\ gone \in 0..Len(starts) /\ frozen \subseteq 1..Len(starts)
    BY LenProperties DEF Base, Places, FilesOK
  <2>2. starts' = starts
    BY <1>1 DEF medium
  <2>3. CASE makeSegmentImmutable
    <3>1. segment \in 1..Len(starts) /\ frozen' = frozen \cup {segment} /\ gone' = gone
      BY <2>1, <2>3 DEF makeSegmentImmutable, Exists, Directory
    <3> QED
      BY <2>1, <2>2, <3>1
  <2>4. CASE Archive
    <3>1. gone' = gone + 1 /\ gone + 1 < Len(starts) /\ frozen' = frozen
      BY <2>4 DEF Archive
    <3> QED
      BY <2>1, <2>2, <3>1
  <2> QED
    BY <2>3, <2>4
<1>3. Types(m)'
  BY <1>1 DEF Base, Types, medium
<1> QED
  BY <1>1, <1>2, <1>3 DEF Base, Places, FilesOK, SinkOK, medium, Entries

\* An arrival, at the one medium of a network sink.
LEMMA ArrivalBase ==
    ASSUME NEW m \in Nat, Base(m), kind \in Networks, NEW out \in Seq(Entry(m)),
           Appended(1, out, TRUE), buffer' \in Seq(Entry(m)), lastHash' \in Seq(1..m),
           flights' \in Seq(Flights(m)), acked' \subseteq 1..m, causes' \in {causes, causes \cup {"unsent"}},
           faults' \in 0..MaxFaults, UNCHANGED <<kind, gone, segment, frozen, crashed>>
    PROVE  Base(m)'
<1>1. lines' \in Seq(Line(m)) /\ Len(starts') = 1 /\ FilesOK'
  BY Arrives DEF Networks
<1>2. Types(m)'
  BY <1>1 DEF Base, Types
<1>3. segment = 1 /\ gone = 0 /\ frozen = {}
  BY DEF Base, SinkOK, Networks
<1>4. gone' \in 0..Len(starts') /\ segment' \in {Len(starts'), Len(starts') + 1} /\ segment' # 0
  BY <1>1, <1>3
<1>5. Places'
  BY <1>3, <1>4 DEF Base, Places, Causes
<1>6. SinkOK'
  BY <1>3 DEF Base, SinkOK, Networks
<1> QED
  BY <1>1, <1>2, <1>5, <1>6 DEF Base

\* A network sink without an arrival.
LEMMA QuietBase ==
    ASSUME NEW m \in Nat, Base(m), kind \in Networks, buffer' \in Seq(Entry(m)),
           lastHash' \in Seq(1..m), flights' \in Seq(Flights(m)), acked' \subseteq 1..m,
           causes' \in {causes, causes \cup {"unsent"}, causes \cup {"rejected"}, causes \cup {"unanswered"}},
           faults' \in 0..MaxFaults, UNCHANGED <<kind, medium, gone, segment, frozen, crashed>>
    PROVE  Base(m)'
<1>1. Types(m)'
  BY DEF Base, Types, medium
<1>2. Places'
  BY DEF Base, Places, Causes, medium
<1>3. SinkOK'
  BY DEF Base, SinkOK, Networks
<1>4. FilesOK'
  BY DEF Base, FilesOK, medium, Entries
<1> QED
  BY <1>1, <1>2, <1>3, <1>4 DEF Base

\* What the flushes under way are made of.
LEMMA FlightFields ==
    ASSUME NEW m \in Nat, Base(m), NEW i \in 1..Len(flights)
    PROVE  /\ flights \in Seq(Flights(m)) /\ flights[i] \in Flights(m)
           /\ flights[i].out \in Seq(Entry(m)) /\ flights[i].todo \in Seq(1..m)
           /\ flights[i].writer \in 0..m /\ Without(flights, i) \in Seq(Flights(m))
           /\ \A x \in Flights(m) : [flights EXCEPT ![i] = x] \in Seq(Flights(m))
<1>1. flights \in Seq(Flights(m))
  BY DEF Base, Types
<1>2. flights[i] \in Flights(m)
  BY <1>1, ElementOfSeq
<1>3. Without(flights, i) \in Seq(Flights(m))
  BY <1>1, Removed
<1>4. \A x \in Flights(m) : [flights EXCEPT ![i] = x] \in Seq(Flights(m))
  BY <1>1, ExceptSeq
<1> QED
  BY <1>1, <1>2, <1>3, <1>4 DEF Flights

\* What an unanswered batch gives back to the buffer.
Returned(out) == [k \in 1..Len(out) |-> Unsealed(out[k].ev)]

\* It gives back the events it has taken.
LEMMA ReturnedType ==
    ASSUME NEW m \in Nat, NEW out \in Seq(Entry(m)), NEW b \in Seq(Entry(m))
    PROVE  /\ Returned(out) \o b \in Seq(Entry(m))
           /\ EventSet(Returned(out) \o b) = EventSet(out) \cup EventSet(b)
<1>1. Len(out) \in Nat /\ << >> \in Seq(1..m)
  BY LenProperties, EmptySeq
<1>2. ASSUME NEW k \in 1..Len(out) PROVE Unsealed(out[k].ev) \in Entry(m) /\ Unsealed(out[k].ev).ev = out[k].ev
  <2>1. out[k] \in Entry(m)
    BY ElementOfSeq
  <2>2. out[k].ev \in 1..m
    BY <2>1, EntryFields
  <2> QED
    BY <1>1, <2>2, OneEntry
<1>3. Returned(out) \in [1..Len(out) -> Entry(m)]
  BY <1>2 DEF Returned
<1>4. Returned(out) \in Seq(Entry(m)) /\ Len(Returned(out)) = Len(out)
  BY <1>1, <1>3, FunctionSeq
<1>5. EventSet(Returned(out)) = EventSet(out)
  <2>1. \A k \in 1..Len(out) : Returned(out)[k].ev = out[k].ev
    BY <1>2 DEF Returned
  <2> QED
    BY <1>4, <2>1 DEF EventSet
<1> QED
  BY <1>4, <1>5, EventsConcat

\* The http sink's batches.
LEMMA HttpBase ==
    ASSUME NEW m \in Nat, Base(m), NEW i \in 1..Len(flights),
           HttpArrives(i) \/ HttpAnswered(i) \/ HttpUnanswered(i)
    PROVE  Base(m)'
<1>1. kind \in Networks /\ UNCHANGED <<kind, gone, segment, frozen, crashed, lastHash>>
  BY DEF HttpArrives, HttpAnswered, HttpUnanswered, Networks
<1>2. buffer \in Seq(Entry(m)) /\ lastHash' \in Seq(1..m) /\ acked \subseteq 1..m /\ faults \in 0..MaxFaults
  BY <1>1 DEF Base, Types, Places
<1>3. flights[i].out \in Seq(Entry(m)) /\ flights[i].writer \in 0..m /\ Without(flights, i) \in Seq(Flights(m))
  BY FlightFields
<1>4. /\ [flights EXCEPT ![i].arrived = TRUE] \in Seq(Flights(m))
      /\ [flights EXCEPT ![i].live = FALSE] \in Seq(Flights(m))
  <2>1. /\ [flights[i] EXCEPT !.arrived = TRUE] \in Flights(m)
        /\ [flights[i] EXCEPT !.live = FALSE] \in Flights(m)
    <3>1. flights[i] \in Flights(m)
      BY FlightFields
    <3> QED
      BY <3>1 DEF Flights
  <2> QED
    BY <2>1, FlightFields
<1>5. CASE HttpArrives(i)
  <2>1. flights' \in Seq(Flights(m))
    BY <1>3, <1>4, <1>5 DEF HttpArrives
  <2> QED
    BY <1>1, <1>2, <1>3, <1>5, <2>1, ArrivalBase DEF HttpArrives
<1>6. CASE HttpAnswered(i)
  <2>1. flights' \in Seq(Flights(m)) /\ buffer' = buffer /\ UNCHANGED medium
    BY <1>3, <1>6 DEF HttpAnswered
  <2>2. acked' \subseteq 1..m
    BY <1>2, <1>3, <1>6, Acknowledged DEF HttpAnswered
  <2>3. faults' \in 0..MaxFaults /\ causes' \in {causes, causes \cup {"rejected"}}
    <3>1. \/ faults' = faults /\ causes' = causes
          \/ faults < MaxFaults /\ faults' = faults + 1 /\ causes' = causes \cup {"rejected"}
      BY <1>6 DEF HttpAnswered
    <3> QED
      BY <1>2, <3>1
  <2> QED
    BY <1>1, <1>2, <2>1, <2>2, <2>3, QuietBase
<1>7. CASE HttpUnanswered(i)
  <2>1. flights' \in Seq(Flights(m)) /\ acked' = acked /\ UNCHANGED medium
    BY <1>3, <1>4, <1>7 DEF HttpUnanswered
  <2>2. buffer' \in Seq(Entry(m))
    <3>1. buffer' = Returned(flights[i].out) \o buffer
      BY <1>7 DEF HttpUnanswered, Returned
    <3> QED
      BY <1>2, <1>3, <3>1, ReturnedType
  <2>3. faults' \in 0..MaxFaults /\ causes' \in {causes, causes \cup {"unanswered"}}
    BY <1>2, <1>7 DEF HttpUnanswered
  <2> QED
    BY <1>1, <1>2, <2>1, <2>2, <2>3, QuietBase
<1> QED
  BY <1>5, <1>6, <1>7

\* The syslog sink's sends.
LEMMA SyslogBase ==
    ASSUME NEW m \in Nat, Base(m), NEW i \in 1..Len(flights), NEW ok \in BOOLEAN, NEW arrives \in BOOLEAN,
           SyslogSent(i, ok, arrives)
    PROVE  Base(m)'
<1> DEFINE f == flights[i]
<1>1. kind \in Networks /\ UNCHANGED <<kind, gone, segment, frozen, crashed, buffer>>
  BY DEF SyslogSent, Networks
<1>2. buffer' \in Seq(Entry(m)) /\ lastHash \in Seq(1..m) /\ acked \subseteq 1..m /\ faults \in 0..MaxFaults
  BY <1>1 DEF Base, Types, Places
<1>3. /\ f.out \in Seq(Entry(m)) /\ f.todo \in Seq(1..m) /\ f.writer \in 0..m /\ f \in Flights(m)
      /\ Without(flights, i) \in Seq(Flights(m))
  BY FlightFields
<1>4. faults' \in 0..MaxFaults /\ causes' \in {causes, causes \cup {"unsent"}}
  <2>1. \/ faults' = faults /\ causes' = causes
        \/ faults < MaxFaults /\ faults' = faults + 1 /\ causes' = causes \cup {"unsent"}
    BY DEF SyslogSent
  <2> QED
    BY <1>2, <2>1
<1>5. flights' \in Seq(Flights(m)) /\ lastHash' \in Seq(1..m) /\ acked' \subseteq 1..m
  <2>1. CASE f.todo = << >>
    <3>1. flights' = Without(flights, i) /\ Acknowledge(f.writer, f.ok /\ ok) /\ lastHash' = lastHash
      BY <2>1 DEF SyslogSent
    <3>2. acked' \subseteq 1..m
      <4> HIDE DEF f
      <4> QED
        BY <1>2, <1>3, <3>1, Acknowledged
    <3> QED
      BY <1>2, <1>3, <3>1, <3>2
  <2>2. CASE f.todo # << >>
    <3> DEFINE h == Head(f.todo)
               g == [f EXCEPT !.out = Sealed(lastHash, <<h>>), !.todo = Tail(f.todo), !.ok = f.ok /\ ok]
    <3>1. flights' = [flights EXCEPT ![i] = g] /\ lastHash' = chainHashOf(lastHash, <<h>>) /\ acked' = acked
      BY <2>2 DEF SyslogSent
    <3>2. h \in 1..m /\ Tail(f.todo) \in Seq(1..m)
      BY <1>3, <2>2, HeadTailProperties
    <3>3. Sealed(lastHash, <<h>>) \in Seq(Entry(m)) /\ chainHashOf(lastHash, <<h>>) \in Seq(1..m)
      <4> HIDE DEF h
      <4> QED
        BY <1>2, <3>2, OneEntry
    <3>4. g \in Flights(m)
      <4> HIDE DEF h
      <4>1. (f.ok /\ ok) \in BOOLEAN
        OBVIOUS
      <4> HIDE DEF f
      <4> QED
        BY <1>3, <3>2, <3>3, <4>1 DEF Flights
    <3> HIDE DEF g
    <3>5. [flights EXCEPT ![i] = g] \in Seq(Flights(m))
      BY <3>4, FlightFields
    <3> QED
      BY <1>2, <3>1, <3>3, <3>5
  <2> QED
    BY <2>1, <2>2
<1>6. CASE arrives
  <2>1. Appended(1, f.out, TRUE)
    BY <1>6 DEF SyslogSent
  <2> HIDE DEF f
  <2> QED
    BY <1>1, <1>2, <1>3, <1>4, <1>5, <2>1, ArrivalBase
<1>7. CASE ~arrives
  <2>1. UNCHANGED medium
    BY <1>7 DEF SyslogSent
  <2> QED
    BY <1>1, <1>2, <1>4, <1>5, <2>1, QuietBase
<1> QED
  BY <1>6, <1>7

\* The hash a restart begins with.
LEMMA StartHash ==
    ASSUME NEW m \in Nat, Base(m)
    PROVE  /\ HashOnStart \in Seq(1..m) /\ InMemory \subseteq 1..m
           /\ kind = "eventlog" /\ Entries = 1..Len(lines) => HashOnStart = HashOf(lines)
           /\ kind = "worm" /\ Entries = 1..Len(lines) =>
                  HashOnStart = HashOf(lines) \/ (Entries # {} /\ HashOnStart = initialHash)
<1>1. /\ lines \in Seq(Line(m)) /\ Len(lines) \in Nat /\ initialHash \in Seq(1..m)
      /\ Len(starts) \in Nat /\ starts \in Seq(Nat)
  BY LenProperties, EmptySeq DEF Base, Types, FilesOK, initialHash
<1>2. \A i \in Entries : lines[i].hash \in Seq(1..m) /\ lines[i].ev \in 1..m
  <2>1. ASSUME NEW i \in Entries PROVE lines[i].hash \in Seq(1..m) /\ lines[i].ev \in 1..m
    <3>1. lines[i] \in Line(m) /\ lines[i] # Garbage
      BY <1>1, ElementOfSeq DEF Entries
    <3> QED
      BY <3>1, LineCases
  <2> QED
    BY <2>1
<1>3. lines # << >> => Len(lines) \in 1..Len(lines)
  BY <1>1, EmptySeq
<1>4. RecoveredHash \in Seq(1..m) /\ (Entries = 1..Len(lines) => RecoveredHash = HashOf(lines))
  <2>1. CASE lines = << >> \/ lines[Len(lines)] = Garbage
    <3>1. Entries = 1..Len(lines) => lines = << >>
      BY <1>3, <2>1 DEF Entries
    <3> QED
      BY <1>1, <2>1, <3>1 DEF RecoveredHash, HashOf
  <2>2. CASE ~(lines = << >> \/ lines[Len(lines)] = Garbage)
    <3>1. Len(lines) \in Entries
      BY <1>3, <2>2 DEF Entries
    <3> QED
      BY <1>2, <2>2, <3>1 DEF RecoveredHash, HashOf
  <2> QED
    BY <2>1, <2>2
<1>5. /\ RestoredHash \in Seq(1..m)
      /\ Entries = 1..Len(lines) =>
             RestoredHash = HashOf(lines) \/ (Entries # {} /\ RestoredHash = initialHash)
  <2> DEFINE es == {i \in Entries : i > starts[Len(starts)]}
             Top(i) == \A j \in es : j <= i
  <2>1. CASE starts = << >> \/ es = {}
    <3>1. RestoredHash = initialHash
      BY <2>1 DEF RestoredHash
    <3>2. Entries = 1..Len(lines) => lines = << >> \/ Entries # {}
      BY <1>3
    <3> QED
      BY <1>1, <3>1, <3>2 DEF HashOf
  <2>2. CASE ~(starts = << >> \/ es = {})
    <3>1. RestoredHash = lines[CHOOSE i \in es : Top(i)].hash
      BY <2>2 DEF RestoredHash
    <3>2. \E i \in es : Top(i)
      <4>1. es \subseteq 1..Len(lines) /\ es # {}
        BY <2>2 DEF Entries
      <4> HIDE DEF es
      <4> QED
        BY <1>1, <4>1, Largest
    <3> DEFINE x == CHOOSE i \in es : Top(i)
    <3>3. x \in es /\ Top(x)
      BY <3>2
    <3>4. x \in Entries /\ x \in 1..Len(lines)
      BY <3>3 DEF Entries
    <3> HIDE DEF x
    <3>5. Entries = 1..Len(lines) => x = Len(lines) /\ lines # << >>
      <4>1. ASSUME Entries = 1..Len(lines) PROVE x = Len(lines) /\ lines # << >>
        <5>1. starts[Len(starts)] \in Nat
          <6>1. Len(starts) \in 1..Len(starts)
            BY <1>1, <2>2, EmptySeq
          <6> QED
            BY <1>1, <6>1, ElementOfSeq
        <5>2. Len(lines) \in Entries /\ Len(lines) >= x /\ x > starts[Len(starts)]
          <6>1. x > starts[Len(starts)]
            BY <3>3
          <6>2. Len(lines) \in 1..Len(lines) /\ Len(lines) >= x
            BY <1>1, <3>4
          <6> QED
            BY <4>1, <6>1, <6>2
        <5>3. Len(lines) \in es
          BY <1>1, <3>4, <5>1, <5>2
        <5>4. Len(lines) <= x
          BY <3>3, <5>3
        <5>5. Len(lines) # 0 /\ Len(<< >>) = 0
          BY <1>1, <3>4, EmptySeq
        <5> QED
          BY <1>1, <3>4, <5>2, <5>4, <5>5
      <4> QED
        BY <4>1
    <3>6. RestoredHash = lines[x].hash
      BY <3>1 DEF x
    <3> QED
      BY <1>2, <3>4, <3>5, <3>6 DEF HashOf
  <2> QED
    BY <2>1, <2>2
<1>6. InMemory \subseteq 1..m
  <2>1. EventSet(buffer) \subseteq 1..m
    BY EventsOfType DEF Base, Types
  <2>2. ASSUME NEW i \in 1..Len(flights) PROVE EventSet(flights[i].out) \cup Range(flights[i].todo) \subseteq 1..m
    <3>1. flights[i].out \in Seq(Entry(m)) /\ flights[i].todo \in Seq(1..m)
      BY FlightFields
    <3> QED
      BY <3>1, EventsOfType, RangeOfSeq
  <2>3. StoredEvents \subseteq 1..m
    BY <1>2 DEF StoredEvents
  <2> DEFINE onWay == UNION {EventSet(flights[i].out) \cup Range(flights[i].todo) : i \in 1..Len(flights)}
             stored == IF kind = "memory" THEN StoredEvents ELSE {}
  <2>4. onWay \subseteq 1..m
    BY <2>2
  <2>5. stored \subseteq 1..m
    BY <2>3
  <2>6. InMemory = EventSet(buffer) \cup onWay \cup stored
    BY DEF InMemory
  <2> HIDE DEF onWay, stored
  <2> QED
    BY <2>1, <2>4, <2>5, <2>6
<1> QED
  BY <1>1, <1>4, <1>5, <1>6 DEF HashOnStart

\* A crash and the restart.
LEMMA RestartBase ==
    ASSUME NEW m \in Nat, Base(m), Restart
    PROVE  Base(m)'
<1>1. HashOnStart \in Seq(1..m) /\ initialHash \in Seq(1..m) /\ InMemory \subseteq 1..m
  BY StartHash, EmptySeq DEF initialHash
<1>2. << >> \in Seq(Entry(m)) /\ << >> \in Seq(Flights(m)) /\ << >> \in Seq(Line(m)) /\ Len(<< >>) = 0
      /\ << >> \in Seq(Nat)
  BY EmptySeq
<1>3. /\ crashed \subseteq 1..m /\ lines \in Seq(Line(m)) /\ acked \subseteq 1..m
      /\ FilesOK /\ Len(starts) \in Nat
  BY LenProperties DEF Base, Types, FilesOK
<1>4. Types(m)'
  <2>1. lines' \in Seq(Line(m))
    BY <1>2, <1>3 DEF Restart, medium
  <2>2. crashed' \subseteq 1..m
    BY <1>1, <1>3 DEF Restart
  <2> QED
    BY <1>1, <1>2, <1>3, <2>1, <2>2 DEF Restart, Types
<1>5. causes' \subseteq Causes /\ causes \subseteq causes' /\ faults' \in 0..MaxFaults
  <2>1. causes' \subseteq causes \cup {"restart", "blank", "unread"} /\ causes \subseteq causes'
    BY DEF Restart
  <2>2. causes \subseteq Causes /\ faults \in 0..MaxFaults
    BY DEF Base, Places
  <2>3. faults' \in 0..MaxFaults
    BY <2>2 DEF Restart
  <2> QED
    BY <2>1, <2>2, <2>3 DEF Causes
<1>6. FilesOK'
  <2>1. CASE kind = "memory"
    <3>1. lines' = << >> /\ starts' = << >> /\ eol' = TRUE
      BY <2>1 DEF Restart
    <3>2. Entries' = 1..Len(lines')
      BY <1>2, <3>1 DEF Entries
    <3> QED
      BY <1>2, <3>1, <3>2 DEF FilesOK
  <2>2. CASE kind # "memory"
    <3>1. UNCHANGED medium
      BY <2>2 DEF Restart
    <3> QED
      BY <1>3, <1>5, <3>1 DEF FilesOK, medium, Entries
  <2> QED
    BY <2>1, <2>2
<1>7. Places'
  <2>1. kind' = kind /\ gone' = gone /\ frozen' = frozen
    BY DEF Restart
  <2>2. CASE kind = "memory"
    <3>1. starts' = << >> /\ segment' = segment
      BY <2>2 DEF Restart
    <3>2. gone = 0 /\ segment = 1 /\ frozen = {}
      BY <2>2 DEF Base, SinkOK
    <3>3. gone' \in 0..Len(starts') /\ segment' \in {Len(starts'), Len(starts') + 1} /\ segment' # 0
      BY <1>2, <2>1, <3>1, <3>2
    <3> QED
      BY <1>5, <2>1, <3>2, <3>3 DEF Base, Places
  <2>3. CASE kind # "memory"
    <3>1. starts' = starts
      BY <2>3 DEF Restart, medium
    <3>2. starts # << >> => Len(starts) # 0
      BY EmptySeq DEF Base, FilesOK
    <3>3. segment' \in {Len(starts), Len(starts) + 1} /\ segment' # 0
      BY <3>2 DEF Restart, Base, Places
    <3> QED
      BY <1>5, <2>1, <3>1, <3>3 DEF Base, Places
  <2> QED
    BY <2>2, <2>3
<1>8. SinkOK'
  <2>1. causes' \subseteq causes \cup {"restart", "blank", "unread"} /\ causes \subseteq causes'
    BY DEF Restart
  <2> QED
    BY <2>1 DEF Restart, Base, SinkOK
<1> QED
  BY <1>4, <1>6, <1>7, <1>8 DEF Base

\* The base invariant is inductive.
LEMMA BaseStep == BaseInv /\ [AuditNext]_auditVars => BaseInv'
<1> SUFFICES ASSUME BaseInv, [AuditNext]_auditVars PROVE BaseInv'
  OBVIOUS
<1>1. CASE record
  BY <1>1, RecordBase
<1>2. PICK m \in Nat : m = nextEvent - 1
  BY DEF BaseInv
<1>3. Base(m) /\ nextEvent \in 1..(MaxEvents + 1)
  BY <1>2 DEF BaseInv
<1>4. ASSUME Base(m)', nextEvent' = nextEvent PROVE BaseInv'
  BY <1>2, <1>3, <1>4 DEF BaseInv
<1>5. CASE flush
  BY <1>3, <1>4, <1>5, FlushBase DEF flush
<1>6. CASE makeSegmentImmutable \/ Archive
  BY <1>3, <1>4, <1>6, OperatorBase DEF makeSegmentImmutable, Archive
<1>7. CASE \E i \in 1..Len(flights) : HttpArrives(i) \/ HttpAnswered(i) \/ HttpUnanswered(i)
  BY <1>3, <1>4, <1>7, HttpBase DEF HttpArrives, HttpAnswered, HttpUnanswered
<1>8. CASE \E i \in 1..Len(flights), ok, arrives \in BOOLEAN : SyslogSent(i, ok, arrives)
  BY <1>3, <1>4, <1>8, SyslogBase DEF SyslogSent
<1>9. CASE Restart
  BY <1>3, <1>4, <1>9, RestartBase DEF Restart
<1>10. CASE UNCHANGED auditVars
  <2>1. Base(m)'
    BY <1>3, <1>10 DEF auditVars, Base, Types, Places, FilesOK, SinkOK, Entries
  <2> QED
    BY <1>4, <1>10, <2>1 DEF auditVars
<1> QED
  BY <1>1, <1>5, <1>6, <1>7, <1>8, <1>9, <1>10 DEF AuditNext

\* It holds at the start.
LEMMA BaseStart == AuditInit => BaseInv
<1> SUFFICES ASSUME AuditInit PROVE BaseInv
  OBVIOUS
<1>1. \A S : << >> \in Seq(S) /\ Len(<< >>) = 0
  BY EmptySeq
<1>2. nextEvent \in 1..(MaxEvents + 1) /\ nextEvent - 1 = 0
  BY DEF AuditInit
<1>3. Types(0)
  BY <1>1 DEF AuditInit, Types, initialHash
<1>4. Places
  BY <1>1 DEF AuditInit, Places
<1>5. FilesOK
  <2>1. Entries = 1..Len(lines)
    BY <1>1 DEF AuditInit, Entries
  <2> QED
    BY <1>1, <2>1 DEF AuditInit, FilesOK
<1>6. SinkOK
  BY DEF AuditInit, SinkOK
<1> QED
  BY <1>2, <1>3, <1>4, <1>5, <1>6 DEF BaseInv, Base

\* The events of a state are those recorded so far.
LEMMA BaseTypes == BaseInv => AuditTypeOK
<1> SUFFICES ASSUME BaseInv PROVE AuditTypeOK
  OBVIOUS
<1>1. PICK m \in Nat : m = nextEvent - 1
  BY DEF BaseInv
<1>2. Base(m) /\ nextEvent \in 1..(MaxEvents + 1)
  BY <1>1 DEF BaseInv
<1>3. EventSet(buffer) \subseteq 1..m
  BY <1>2, EventsOfType DEF Base, Types
<1>4. Range(lastHash) \subseteq 1..m
  <2>1. lastHash \in Seq(1..m)
    BY <1>2 DEF Base, Types
  <2> QED
    BY <2>1, RangeOfSeq
<1>5. StoredEvents \subseteq 1..m
  <2>1. ASSUME NEW i \in Entries PROVE lines[i].ev \in 1..m
    <3>1. lines[i] \in Line(m) /\ lines[i] # Garbage
      BY <1>2, ElementOfSeq DEF Base, Types, Entries
    <3> QED
      BY <3>1, LineCases
  <2> QED
    BY <2>1 DEF StoredEvents
<1>6. acked \subseteq 1..m /\ crashed \subseteq 1..m
  BY <1>2 DEF Base, Types
<1>7. Places
  BY <1>2 DEF Base
<1> QED
  BY <1>1, <1>2, <1>3, <1>4, <1>5, <1>6, <1>7 DEF AuditTypeOK, Places

\* For any number of events, faults, files and flushes under way, whatever a
\* sink buffers, chains, sends or stores is an event that was recorded, and it
\* appends to the newest file or to one beyond it.
THEOREM AuditTypeCorrect == AuditSpec => []AuditTypeOK
<1>1. BaseInv /\ [AuditNext]_auditVars => BaseInv'
  BY BaseStep
<1>2. AuditInit => BaseInv
  BY BaseStart
<1>3. BaseInv => AuditTypeOK
  BY BaseTypes
<1> QED
  BY <1>1, <1>2, <1>3, PTL DEF AuditSpec
-----------------------------------------------------------------------------
(* The chain of hashes *)

\* Lines without garbage are entries.
LEMMA AllEntries ==
    ASSUME NEW m \in Nat, NEW s \in Seq(Line(m)), \A i \in 1..Len(s) : s[i] # Garbage
    PROVE  s \in Seq(Entry(m))
<1>1. \A i \in 1..Len(s) : s[i] \in Entry(m)
  BY ElementOfSeq, LineCases
<1>2. Len(s) \in Nat /\ s \in [1..Len(s) -> Line(m)]
  BY LenProperties
<1>3. s \in [1..Len(s) -> Entry(m)]
  BY <1>1, <1>2
<1> QED
  BY <1>2, <1>3, FunctionSeq

\* The hash of the last entry.
LEMMA LastHash ==
    ASSUME NEW m \in Nat, NEW s \in Seq(Entry(m))
    PROVE  /\ HashOf(s) \in Seq(1..m) /\ (Len(s) = 0 => HashOf(s) = initialHash)
           /\ Len(s) # 0 => HashOf(s) = s[Len(s)].hash
<1>1. Len(s) \in Nat /\ (s # << >> => Len(s) # 0) /\ Len(<< >>) = 0 /\ initialHash \in Seq(1..m)
  BY EmptySeq, LenProperties DEF initialHash
<1>2. CASE s = << >>
  BY <1>1, <1>2 DEF HashOf
<1>3. CASE s # << >>
  <2>1. Len(s) \in 1..Len(s)
    BY <1>1, <1>3
  <2>2. s[Len(s)] \in Entry(m)
    BY <2>1, ElementOfSeq
  <2>3. s[Len(s)].hash \in Seq(1..m)
    BY <2>2, EntryFields
  <2> QED
    BY <1>1, <1>3, <2>3 DEF HashOf
<1> QED
  BY <1>2, <1>3

\* Entries sealed from the last one on lengthen a chain.
LEMMA LinkedConcat ==
    ASSUME NEW m \in Nat, NEW s \in Seq(Entry(m)), LinkedAll(s), NEW es \in Seq(1..m), NEW r,
           r = s \o Sealed(HashOf(s), es)
    PROVE  LinkedAll(r) /\ HashOf(r) = chainHashOf(HashOf(s), es)
<1> DEFINE h == HashOf(s)
           a == Sealed(h, es)
<1>1. h \in Seq(1..m) /\ (Len(s) = 0 => h = initialHash) /\ (Len(s) # 0 => h = s[Len(s)].hash)
  BY LastHash
<1>2. Len(s) \in Nat /\ Len(es) \in Nat
  BY LenProperties
<1> HIDE DEF h
<1>3. a \in Seq(Entry(m)) /\ Len(a) = Len(es) /\ \A k \in 1..Len(es) : a[k].ev = es[k]
  <2>1. /\ Sealed(h, es) \in Seq(Entry(m)) /\ Len(Sealed(h, es)) = Len(es)
        /\ \A i \in 1..Len(es) : /\ Sealed(h, es)[i].ev = es[i]
                                 /\ Sealed(h, es)[i].hash = chainHashOf(h, SubSeq(es, 1, i))
    BY <1>1, SealedType
  <2> QED
    BY <2>1
<1>4. \A k \in 1..Len(es) :
          /\ a[k].hash = chainHashOf(IF k = 1 THEN h ELSE a[k - 1].hash, <<es[k]>>)
          /\ k = Len(es) => a[k].hash = chainHashOf(h, es)
  BY <1>1, SealedLinks
<1>5. chainHashOf(h, << >>) = h /\ << >> \in Seq(1..m)
  BY <1>1, Chaining, EmptySeq
<1> HIDE DEF a
<1>6. /\ s \o a \in Seq(Entry(m)) /\ Len(s \o a) = Len(s) + Len(a)
      /\ \A i \in 1..(Len(s) + Len(a)) : (s \o a)[i] = IF i <= Len(s) THEN s[i] ELSE a[i - Len(s)]
  BY <1>3, ConcatProperties
<1>7. r = s \o a
  BY DEF a, h
<1>8. /\ r \in Seq(Entry(m)) /\ Len(r) = Len(s) + Len(es)
      /\ \A i \in 1..Len(s) : r[i] = s[i]
      /\ \A k \in 1..Len(es) : r[Len(s) + k] = a[k]
  <2>1. \A i \in 1..Len(s) : i \in 1..(Len(s) + Len(a)) /\ i <= Len(s)
    BY <1>2, <1>3
  <2>2. \A k \in 1..Len(es) : /\ Len(s) + k \in 1..(Len(s) + Len(a)) /\ ~(Len(s) + k <= Len(s))
                              /\ (Len(s) + k) - Len(s) = k
    BY <1>2, <1>3
  <2>3. \A i \in 1..Len(s) : r[i] = s[i]
    BY <1>6, <1>7, <2>1
  <2>4. \A k \in 1..Len(es) : r[Len(s) + k] = a[k]
    BY <1>6, <1>7, <2>2
  <2> QED
    BY <1>3, <1>6, <1>7, <2>3, <2>4
<1>9. ASSUME NEW i \in 1..Len(r)
      PROVE  r[i].hash = chainHashOf(IF i = 1 THEN initialHash ELSE r[i - 1].hash, <<r[i].ev>>)
  <2>1. CASE i <= Len(s)
    <3>1. i \in 1..Len(s) /\ (i # 1 => i - 1 \in 1..Len(s))
      BY <1>2, <2>1
    <3>2. r[i] = s[i] /\ (i # 1 => r[i - 1] = s[i - 1])
      BY <1>8, <3>1
    <3>3. s[i].hash = chainHashOf(IF i = 1 THEN initialHash ELSE s[i - 1].hash, <<s[i].ev>>)
      BY <3>1 DEF LinkedAll
    <3> QED
      BY <3>2, <3>3
  <2>2. CASE ~(i <= Len(s))
    <3>1. PICK k \in 1..Len(es) : i = Len(s) + k
      <4>1. i - Len(s) \in 1..Len(es) /\ i = Len(s) + (i - Len(s))
        BY <1>2, <1>8, <2>2
      <4> QED
        BY <4>1
    <3>2. r[i] = a[k] /\ a[k].ev = es[k]
      BY <1>3, <1>8, <3>1
    <3>3. (IF i = 1 THEN initialHash ELSE r[i - 1].hash) = IF k = 1 THEN h ELSE a[k - 1].hash
      <4>1. CASE k # 1
        <5>1. k - 1 \in 1..Len(es) /\ i - 1 = Len(s) + (k - 1) /\ i # 1
          BY <1>2, <3>1, <4>1
        <5> QED
          BY <1>8, <4>1, <5>1
      <4>2. CASE k = 1 /\ Len(s) = 0
        <5>1. i = 1
          BY <3>1, <4>2
        <5> QED
          BY <1>1, <4>2, <5>1
      <4>3. CASE k = 1 /\ Len(s) # 0
        <5>1. i # 1 /\ i - 1 = Len(s) /\ Len(s) \in 1..Len(s)
          BY <1>2, <3>1, <4>3
        <5> QED
          BY <1>1, <1>8, <4>3, <5>1
      <4> QED
        BY <4>1, <4>2, <4>3
    <3> QED
      BY <1>4, <3>2, <3>3
  <2> QED
    BY <2>1, <2>2
<1>10. LinkedAll(r)
  BY <1>9 DEF LinkedAll
<1>11. HashOf(r) = chainHashOf(h, es)
  <2>1. /\ Len(r) = 0 => HashOf(r) = initialHash
        /\ Len(r) # 0 => HashOf(r) = r[Len(r)].hash
    BY <1>8, LastHash
  <2>2. CASE Len(es) = 0
    <3>1. es = << >> /\ Len(r) = Len(s)
      BY <1>2, <1>8, <2>2, EmptySeq
    <3>2. Len(s) # 0 => Len(s) \in 1..Len(s)
      BY <1>2
    <3> QED
      BY <1>1, <1>5, <1>8, <2>1, <3>1, <3>2
  <2>3. CASE Len(es) # 0
    <3>1. Len(es) \in 1..Len(es) /\ Len(r) # 0
      BY <1>2, <1>8, <2>3
    <3>2. r[Len(s) + Len(es)] = a[Len(es)] /\ a[Len(es)].hash = chainHashOf(h, es)
      BY <1>4, <1>8, <3>1
    <3> QED
      BY <1>8, <2>1, <3>1, <3>2
  <2> QED
    BY <2>2, <2>3
<1> QED
  BY <1>10, <1>11 DEF h

\* No events, no entries.
LEMMA NothingSealed ==
    ASSUME NEW m \in Nat, NEW h \in Seq(1..m)
    PROVE  /\ EventsOf(<< >>) = << >> /\ Sealed(h, EventsOf(<< >>)) = << >>
           /\ chainHashOf(h, EventsOf(<< >>)) = h
<1> DEFINE none == << >>
<1>1. none \in Seq(Entry(m)) /\ none \in Seq(1..m) /\ Len(none) = 0
  BY EmptySeq
<1>2. \A S : \A s \in Seq(S) : Len(s) = 0 => s = none
  BY EmptySeq
<1>3. chainHashOf(h, none) = h
  BY <1>1, Chaining
<1> HIDE DEF none
<1>4. EventsOf(none) \in Seq(1..m) /\ Len(EventsOf(none)) = 0
  BY <1>1, EventsOfType
<1>5. EventsOf(none) = none
  BY <1>2, <1>4
<1>6. Sealed(h, none) \in Seq(Entry(m)) /\ Len(Sealed(h, none)) = 0
  <2>1. Sealed(h, none) \in [1..0 -> Entry(m)]
    BY <1>1 DEF Sealed
  <2> QED
    BY <2>1, FunctionSeq
<1>7. Sealed(h, none) = none
  BY <1>2, <1>6
<1> QED
  BY <1>3, <1>5, <1>7 DEF none

\* While nothing has broken the chain, every line is an entry.
LEMMA Unbroken ==
    ASSUME NEW m \in Nat, Base(m), causes \cap BreakCauses[kind] = {}, kind \notin Networks
    PROVE  /\ Entries = 1..Len(lines) /\ "torn" \notin causes /\ lines \in Seq(Entry(m))
           /\ HashOf(lines) \in Seq(1..m)
<1>1. "torn" \notin causes
  BY DEF Base, Places, SinkOK, BreakCauses, Kinds, Networks
<1>2. Entries = 1..Len(lines) /\ lines \in Seq(Line(m))
  BY <1>1 DEF Base, Types, FilesOK
<1>3. lines \in Seq(Entry(m))
  BY <1>2, AllEntries DEF Entries
<1> QED
  BY <1>1, <1>2, <1>3, LastHash

\* The memory sink chains each event to the last.
LEMMA MemoryChain ==
    ASSUME NEW m \in Nat, NEW e \in 1..m, Base(m), ChainOK, UNCHANGED kind, MemoryWrite(e)
    PROVE  ChainOK'
<1>1. kind = "memory" /\ causes \cap BreakCauses[kind] = {} /\ kind \notin Networks
  BY DEF MemoryWrite, BreakCauses, Networks
<1>2. lines \in Seq(Entry(m)) /\ LinkedAll(lines) /\ lastHash = HashOf(lines) /\ lastHash \in Seq(1..m)
  BY <1>1, Unbroken DEF ChainOK
<1>3. lines' = lines \o Sealed(lastHash, <<e>>)
  <2>1. Sealed(lastHash, <<e>>) \in Seq(Entry(m))
    BY <1>2, OneEntry
  <2> QED
    BY <1>1, <2>1, Arrives DEF MemoryWrite
<1>4. LinkedAll(lines') /\ HashOf(lines') = chainHashOf(lastHash, <<e>>)
  <2> DEFINE es == <<e>>
  <2>1. es \in Seq(1..m)
    OBVIOUS
  <2> HIDE DEF es
  <2>2. lines' = lines \o Sealed(HashOf(lines), es)
    BY <1>2, <1>3 DEF es
  <2>3. LinkedAll(lines') /\ HashOf(lines') = chainHashOf(HashOf(lines), es)
    BY <1>2, <2>1, <2>2, LinkedConcat
  <2> QED
    BY <1>2, <2>3 DEF es
<1>5. lastHash' = HashOf(lines')
  BY <1>4 DEF MemoryWrite
<1> QED
  BY <1>1, <1>4, <1>5 DEF ChainOK, LinkedAll, HashOf

\* The event log too, unless an append is torn.
LEMMA EventLogChain ==
    ASSUME NEW m \in Nat, NEW e \in 1..m, Base(m), ChainOK, UNCHANGED kind, EventLogAppend(e)
    PROVE  ChainOK'
<1> SUFFICES ASSUME "torn" \notin causes', "unread" \notin causes' PROVE ChainOK'
  BY DEF ChainOK, EventLogAppend, BreakCauses
<1> DEFINE es == <<e>>
           ls == Sealed(lastHash, es)
           n  == 1
<1>1. kind = "eventlog" /\ es \in Seq(1..m)
  BY DEF EventLogAppend
<1>2. PICK o \in Outcomes(n) :
          /\ AppendFile(n, ls, o, {})
          /\ lastHash' = IF o = "ok" THEN chainHashOf(lastHash, es) ELSE lastHash
  BY DEF EventLogAppend
<1>3. /\ lastHash \in Seq(1..m) /\ lines \in Seq(Line(m)) /\ FilesOK /\ causes \subseteq Causes
      /\ faults \in 0..MaxFaults /\ n \in {Len(starts), Len(starts) + 1} /\ n \in Nat \ {0}
      /\ {} \subseteq {"overwritten"}
  BY <1>1 DEF Base, Types, Places, SinkOK
<1>4. ls \in Seq(Entry(m)) /\ ls # << >>
  BY <1>3, OneEntry
<1> HIDE DEF es, n, ls
<1>5. /\ causes \subseteq causes'
      /\ (o = "ok" /\ lines' = lines \o ls) \/ (o = "failed" /\ lines' = lines)
  BY <1>2, <1>3, <1>4, Appends
<1>6. causes \cap BreakCauses[kind] = {} /\ kind \notin Networks
  BY <1>1, <1>5 DEF BreakCauses, Networks
<1>7. lines \in Seq(Entry(m)) /\ LinkedAll(lines) /\ lastHash = HashOf(lines)
  BY <1>1, <1>6, Unbroken DEF ChainOK
<1>8. LinkedAll(lines') /\ lastHash' = HashOf(lines')
  <2>1. CASE o = "ok" /\ lines' = lines \o ls
    <3>1. lines' = lines \o Sealed(HashOf(lines), es)
      BY <1>7, <2>1 DEF ls
    <3>2. LinkedAll(lines') /\ HashOf(lines') = chainHashOf(HashOf(lines), es)
      BY <1>1, <1>7, <3>1, LinkedConcat
    <3> QED
      BY <1>2, <1>7, <2>1, <3>2
  <2>2. CASE o = "failed" /\ lines' = lines
    BY <1>2, <1>7, <2>2
  <2> QED
    BY <1>5, <2>1, <2>2
<1> QED
  BY <1>1, <1>8 DEF ChainOK, LinkedAll, HashOf

\* The file sink, as long as nothing fails and the process lives.
LEMMA FileFlushChain ==
    ASSUME NEW m \in Nat, NEW buf \in Seq(Entry(m)), buf # << >>, NEW e \in 0..m, Base(m), ChainOK,
           kind = "file", UNCHANGED kind, FileFlush(buf, e)
    PROVE  ChainOK'
<1> SUFFICES ASSUME causes' \cap {"failed", "torn", "restart"} = {} PROVE ChainOK'
  BY DEF ChainOK, BreakCauses
<1> DEFINE es == EventsOf(buf)
           ls == Sealed(lastHash, es)
<1>1. /\ lastHash \in Seq(1..m) /\ lines \in Seq(Line(m)) /\ FilesOK
      /\ causes \subseteq Causes /\ faults \in 0..MaxFaults
  BY DEF Base, Types, Places
<1>2. es \in Seq(1..m) /\ Len(es) = Len(buf) /\ Len(buf) \in Nat \ {0}
  BY EventsOfType, EmptySeq
<1>3. ls \in Seq(Entry(m)) /\ ls # << >>
  <2>1. ls \in Seq(Entry(m)) /\ Len(ls) = Len(es)
    BY <1>1, <1>2, SealedType
  <2>2. Len(ls) # 0 /\ Len(<< >>) = 0
    BY <1>2, <2>1, EmptySeq
  <2> QED
    BY <2>1, <2>2
<1>4. PICK r \in Rotations : \E o \in Outcomes(r.seg) :
        AppendFile(r.seg, ls, o, r.cs) /\ lastHash' = chainHashOf(lastHash, es)
  BY DEF FileFlush
<1>5. PICK o \in Outcomes(r.seg) :
        AppendFile(r.seg, ls, o, r.cs) /\ lastHash' = chainHashOf(lastHash, es)
  BY <1>4
<1> HIDE DEF es, ls
<1>6. r.seg \in {Len(starts), Len(starts) + 1} /\ r.seg \in Nat \ {0} /\ r.cs \subseteq {"overwritten"}
  BY Rotating
<1>7. /\ causes' = causes \cup r.cs \cup ({o} \ {"ok"})
      /\ (o = "ok" /\ lines' = lines \o ls) \/ (o = "failed" /\ lines' = lines)
  BY <1>1, <1>3, <1>5, <1>6, Appends
<1>8. lines' = lines \o ls /\ causes \cap BreakCauses[kind] = {} /\ kind \notin Networks
  BY <1>7 DEF BreakCauses, Networks
<1>9. lines \in Seq(Entry(m)) /\ LinkedAll(lines) /\ lastHash = HashOf(lines)
  BY <1>8, Unbroken DEF ChainOK
<1>10. lines' = lines \o Sealed(HashOf(lines), es)
  BY <1>8, <1>9 DEF ls
<1>11. LinkedAll(lines') /\ HashOf(lines') = chainHashOf(HashOf(lines), es)
  BY <1>2, <1>9, <1>10, LinkedConcat
<1>12. lastHash' = HashOf(lines')
  BY <1>5, <1>9, <1>11
<1> QED
  BY <1>11, <1>12 DEF ChainOK, LinkedAll, HashOf

\* A write of the file sink.
LEMMA FileChain ==
    ASSUME NEW m \in Nat, NEW e \in 1..m, Base(m), ChainOK, UNCHANGED kind, FileWrite(e)
    PROVE  ChainOK'
<1> DEFINE buf == Append(buffer, Unsealed(e))
<1>1. buf \in Seq(Entry(m)) /\ buf # << >> /\ e \in 0..m
  <2>1. buffer \in Seq(Entry(m)) /\ lastHash \in Seq(1..m)
    BY DEF Base, Types
  <2>2. Unsealed(e) \in Entry(m)
    BY <2>1, OneEntry
  <2>3. e \in 0..m
    OBVIOUS
  <2> QED
    BY <2>1, <2>2, <2>3, EventsAppend
<1>2. kind = "file"
  BY DEF FileWrite
<1>3. CASE Len(buf) >= FlushSize
  <2>1. FileFlush(buf, e)
    BY <1>3 DEF FileWrite
  <2> HIDE DEF buf
  <2> QED
    BY <1>1, <1>2, <2>1, FileFlushChain
<1>4. CASE ~(Len(buf) >= FlushSize)
  <2>1. UNCHANGED <<lastHash, lines, causes>>
    BY <1>4 DEF FileWrite, medium
  <2> QED
    BY <1>2, <2>1 DEF ChainOK, LinkedAll, HashOf
<1> QED
  BY <1>3, <1>4

\* What a write of the WORM sink flushes.
WormBuf(e) == buffer \o Sealed(lastHash, <<e>>)

\* It continues the chain.
LEMMA WormBuffer ==
    ASSUME NEW m \in Nat, NEW e \in 1..m, Base(m), NEW buf, buf = WormBuf(e)
    PROVE  /\ buf \in Seq(Entry(m)) /\ buf # << >>
           /\ buf[Len(buf)].hash = chainHashOf(lastHash, <<e>>)
           /\ chainHashOf(lastHash, <<e>>) \in Seq(1..m)
           /\ EventSet(buf) = EventSet(buffer) \cup {e}
           /\ \A i \in 1..Len(buf) :
                  \/ \E j \in 1..Len(buffer) : buf[i] = buffer[j]
                  \/ buf[i].ev = e /\ buf[i].hash = chainHashOf(lastHash, <<e>>)
           /\ \A h \in Seq(1..m) :
                  buffer = Sealed(h, EventsOf(buffer)) /\ lastHash = chainHashOf(h, EventsOf(buffer)) =>
                      /\ EventsOf(buf) = Append(EventsOf(buffer), e)
                      /\ buf = Sealed(h, EventsOf(buf))
                      /\ chainHashOf(lastHash, <<e>>) = chainHashOf(h, EventsOf(buf))
<1> DEFINE x == Sealed(lastHash, <<e>>)
<1>1. buffer \in Seq(Entry(m)) /\ lastHash \in Seq(1..m) /\ Len(buffer) \in Nat
  BY LenProperties DEF Base, Types
<1>2. /\ x \in Seq(Entry(m)) /\ Len(x) = 1 /\ EventSet(x) = {e} /\ chainHashOf(lastHash, <<e>>) \in Seq(1..m)
      /\ x[1].ev = e /\ x[1].hash = chainHashOf(lastHash, <<e>>)
  BY <1>1, OneEntry
<1>3. buf = buffer \o x
  BY DEF WormBuf
<1>4. ASSUME NEW h \in Seq(1..m),
             buffer = Sealed(h, EventsOf(buffer)), lastHash = chainHashOf(h, EventsOf(buffer))
      PROVE  /\ EventsOf(buf) = Append(EventsOf(buffer), e)
             /\ buf = Sealed(h, EventsOf(buf))
             /\ chainHashOf(lastHash, <<e>>) = chainHashOf(h, EventsOf(buf))
  <2> DEFINE es == EventsOf(buffer)
             t == Append(es, e)
  <2>1. es \in Seq(1..m)
    BY <1>1, EventsOfType
  <2>2. t \in Seq(1..m)
    BY <2>1, AppendProperties
  <2> HIDE DEF es, t, x
  <2>3. /\ Sealed(h, es) \o Sealed(chainHashOf(h, es), <<e>>) = Sealed(h, t)
        /\ chainHashOf(chainHashOf(h, es), <<e>>) = chainHashOf(h, t)
    BY <2>1, SealedOneMore DEF t
  <2>4. buf = Sealed(h, t)
    BY <1>3, <1>4, <2>3 DEF es, x
  <2>5. EventsOf(Sealed(h, t)) = t
    BY <2>2, SealedType
  <2> QED
    BY <1>4, <2>3, <2>4, <2>5 DEF es, t
<1> HIDE DEF x
<1>5. /\ buffer \o x \in Seq(Entry(m)) /\ Len(buffer \o x) = Len(buffer) + Len(x)
      /\ EventSet(buffer \o x) = EventSet(buffer) \cup EventSet(x)
      /\ \A i \in 1..Len(buffer \o x) : \/ \E j \in 1..Len(buffer) : (buffer \o x)[i] = buffer[j]
                                        \/ \E j \in 1..Len(x) : (buffer \o x)[i] = x[j]
  BY <1>1, <1>2, EventsConcat
<1>6. Len(buf) = Len(buffer) + 1 /\ buf[Len(buf)] = x[1]
  <2>1. /\ Len(buffer \o x) = Len(buffer) + Len(x)
        /\ \A i \in 1..(Len(buffer) + Len(x)) :
               (buffer \o x)[i] = IF i <= Len(buffer) THEN buffer[i] ELSE x[i - Len(buffer)]
    BY <1>1, <1>2, ConcatProperties
  <2>2. /\ Len(buffer) + 1 \in 1..(Len(buffer) + Len(x)) /\ ~(Len(buffer) + 1 <= Len(buffer))
        /\ (Len(buffer) + 1) - Len(buffer) = 1
    BY <1>1, <1>2
  <2>3. (buffer \o x)[Len(buffer) + 1] = x[1]
    BY <2>1, <2>2
  <2> QED
    BY <1>2, <1>3, <2>1, <2>3
<1>7. buf # << >>
  <2>1. Len(buf) # 0 /\ Len(<< >>) = 0
    BY <1>1, <1>6, EmptySeq
  <2> QED
    BY <2>1
<1>8. ASSUME NEW i \in 1..Len(buf)
      PROVE  \/ \E j \in 1..Len(buffer) : buf[i] = buffer[j]
             \/ buf[i].ev = e /\ buf[i].hash = chainHashOf(lastHash, <<e>>)
  <2>1. \A j \in 1..Len(x) : x[j] = x[1]
    BY <1>2
  <2> QED
    BY <1>2, <1>3, <1>5, <2>1
<1> QED
  BY <1>2, <1>3, <1>4, <1>5, <1>6, <1>7, <1>8

\* A flush of the WORM sink stores what the chain goes on with, and keeps it
\* when the append fails.
LEMMA WormFlushChain ==
    ASSUME NEW m \in Nat, NEW buf \in Seq(Entry(m)), buf # << >>, NEW e \in 0..m, Base(m), ChainOK,
           kind = "worm", UNCHANGED kind, WormFlush(buf, e),
           buf[Len(buf)].hash = lastHash',
           causes \cap BreakCauses[kind] = {} =>
               /\ buf = Sealed(HashOf(lines), EventsOf(buf))
               /\ lastHash' = chainHashOf(HashOf(lines), EventsOf(buf))
    PROVE  ChainOK' /\ SealOK'
<1> DEFINE es == EventsOf(buf)
           n == WormSegment
<1>1. /\ lines \in Seq(Line(m)) /\ FilesOK /\ causes \subseteq Causes /\ faults \in 0..MaxFaults
      /\ {} \subseteq {"overwritten"}
  BY DEF Base, Types, Places
<1>2. n \in {Len(starts), Len(starts) + 1} /\ n \in Nat \ {0}
  BY NextSegment
<1>3. SealOK'
  BY DEF WormFlush, WormRefused, WormAppended, SealOK
<1>4. ASSUME causes' \cap {"torn", "refused", "blank", "unread"} = {}
      PROVE  /\ LinkedAll(lines') /\ buffer' = Sealed(HashOf(lines'), EventsOf(buffer'))
             /\ lastHash' = chainHashOf(HashOf(lines'), EventsOf(buffer'))
  <2>1. ~WormRefused(e)
    BY <1>4 DEF WormRefused
  <2>2. PICK o \in Outcomes(n) : AppendFile(n, buf, o, {}) /\ buffer' = IF o = "ok" THEN << >> ELSE buf
    BY <2>1 DEF WormFlush, WormAppended
  <2> HIDE DEF n, es
  <2>3. /\ causes \subseteq causes'
        /\ (o = "ok" /\ lines' = lines \o buf) \/ (o = "failed" /\ lines' = lines)
    <3>1. "torn" \notin causes'
      BY <1>4
    <3>2. /\ causes' = causes \cup {} \cup ({o} \ {"ok"})
          /\ "torn" \notin causes' =>
                 (o = "ok" /\ lines' = lines \o buf) \/ (o = "failed" /\ lines' = lines)
      BY <1>1, <1>2, <2>2, Appends
    <3> QED
      BY <3>1, <3>2
  <2>4. causes \cap BreakCauses[kind] = {} /\ kind \notin Networks
    BY <1>4, <2>3 DEF BreakCauses, Networks
  <2>5. lines \in Seq(Entry(m)) /\ LinkedAll(lines) /\ HashOf(lines) \in Seq(1..m)
    BY <2>4, Unbroken DEF ChainOK
  <2>6. /\ buf = Sealed(HashOf(lines), es) /\ lastHash' = chainHashOf(HashOf(lines), es)
        /\ es \in Seq(1..m)
    BY <2>4, EventsOfType DEF es
  <2>7. CASE o = "ok" /\ lines' = lines \o buf
    <3>1. PICK r : r = lines'
      OBVIOUS
    <3>2. r = lines \o Sealed(HashOf(lines), es)
      BY <2>6, <2>7, <3>1
    <3>3. LinkedAll(r) /\ HashOf(r) = chainHashOf(HashOf(lines), es)
      BY <2>5, <2>6, <3>2, LinkedConcat
    <3>4. chainHashOf(HashOf(lines), es) \in Seq(1..m)
      BY <2>5, <2>6, Chaining
    <3>5. Sealed(HashOf(r), EventsOf(<< >>)) = << >> /\ chainHashOf(HashOf(r), EventsOf(<< >>)) = HashOf(r)
      BY <3>3, <3>4, NothingSealed
    <3> QED
      BY <2>2, <2>6, <2>7, <3>1, <3>3, <3>5
  <2>8. CASE o = "failed" /\ lines' = lines
    BY <2>2, <2>5, <2>6, <2>8 DEF es
  <2> QED
    BY <2>3, <2>7, <2>8
<1>5. ChainOK'
  <2>1. kind' = "worm" /\ BreakCauses[kind'] = {"torn", "refused", "blank", "unread"}
    BY DEF BreakCauses
  <2> HIDE DEF es, n
  <2> QED
    BY <1>4, <2>1 DEF ChainOK
<1> QED
  BY <1>3, <1>5

\* A write of the WORM sink.
LEMMA WormChain ==
    ASSUME NEW m \in Nat, NEW e \in 1..m, Base(m), ChainOK, SealOK, UNCHANGED kind, WormWrite(e)
    PROVE  ChainOK' /\ SealOK'
<1> DEFINE buf == WormBuf(e)
<1>1. buf = WormBuf(e)
  OBVIOUS
<1>2. kind = "worm" /\ lastHash' = chainHashOf(lastHash, <<e>>) /\ e \in 0..m
  BY DEF WormWrite
<1>3. \/ WormFlush(buf, e)
      \/ buffer' = buf /\ UNCHANGED <<medium, causes>>
  BY DEF WormWrite, WormBuf
<1> HIDE DEF buf
<1>4. /\ buf \in Seq(Entry(m)) /\ buf # << >> /\ buf[Len(buf)].hash = chainHashOf(lastHash, <<e>>)
      /\ \A h \in Seq(1..m) :
             buffer = Sealed(h, EventsOf(buffer)) /\ lastHash = chainHashOf(h, EventsOf(buffer)) =>
                 /\ EventsOf(buf) = Append(EventsOf(buffer), e)
                 /\ buf = Sealed(h, EventsOf(buf))
                 /\ chainHashOf(lastHash, <<e>>) = chainHashOf(h, EventsOf(buf))
  BY <1>1, WormBuffer
<1>5. causes \cap BreakCauses[kind] = {} =>
          /\ buf = Sealed(HashOf(lines), EventsOf(buf))
          /\ lastHash' = chainHashOf(HashOf(lines), EventsOf(buf))
          /\ LinkedAll(lines)
  <2>1. ASSUME causes \cap BreakCauses[kind] = {}
        PROVE  /\ HashOf(lines) \in Seq(1..m) /\ LinkedAll(lines)
               /\ buffer = Sealed(HashOf(lines), EventsOf(buffer))
               /\ lastHash = chainHashOf(HashOf(lines), EventsOf(buffer))
    <3>1. kind \notin Networks
      BY <1>2 DEF Networks
    <3>2. HashOf(lines) \in Seq(1..m)
      BY <2>1, <3>1, Unbroken
    <3> QED
      BY <1>2, <2>1, <3>1, <3>2 DEF ChainOK
  <2> QED
    BY <1>2, <1>4, <2>1
<1>6. CASE WormFlush(buf, e)
  <2>1. buf[Len(buf)].hash = lastHash'
    BY <1>2, <1>4
  <2> QED
    BY <1>2, <1>4, <1>5, <1>6, <2>1, WormFlushChain
<1>7. CASE buffer' = buf /\ UNCHANGED <<medium, causes>>
  <2>1. SealOK'
    BY <1>2, <1>4, <1>7 DEF SealOK
  <2>2. lines' = lines /\ causes' = causes
    BY <1>7 DEF medium
  <2>3. ChainOK'
    BY <1>2, <1>5, <1>7, <2>2 DEF ChainOK
  <2> QED
    BY <2>1, <2>3
<1> QED
  BY <1>3, <1>6, <1>7

\* A restart goes on from the last entry, or from the start on a broken chain.
LEMMA RestartChain ==
    ASSUME NEW m \in Nat, Base(m), ChainOK, Restart
    PROVE  ChainOK' /\ SealOK'
<1>1. /\ kind' = kind /\ buffer' = << >> /\ kind \in Kinds
      /\ lastHash' = HashOnStart \/ (kind \in Durable /\ "unread" \in causes')
  BY DEF Restart, Base, Places
<1>2. SealOK'
  BY <1>1 DEF SealOK
<1>3. causes \cup {"restart"} \subseteq causes'
  BY DEF Restart
<1>4. CASE kind = "memory"
  <2>1. lines' = << >> /\ lastHash' = initialHash /\ Len(<< >>) = 0
    BY <1>1, <1>4, EmptySeq DEF Restart, HashOnStart, Durable
  <2> QED
    BY <1>1, <1>2, <1>4, <2>1 DEF ChainOK, LinkedAll, HashOf
<1>5. CASE kind = "eventlog"
  <2> SUFFICES ASSUME causes' \cap BreakCauses[kind] = {} PROVE ChainOK'
    BY <1>1, <1>2 DEF ChainOK
  <2>1. causes \cap BreakCauses[kind] = {} /\ kind \notin Networks /\ lines' = lines
    BY <1>3, <1>5 DEF Restart, Networks, medium
  <2>2. HashOnStart = HashOf(lines) /\ LinkedAll(lines) /\ lastHash' = HashOnStart
    BY <1>1, <1>5, <2>1, Unbroken, StartHash DEF ChainOK, BreakCauses
  <2> QED
    BY <1>1, <1>5, <2>1, <2>2 DEF ChainOK
<1>6. CASE kind = "worm"
  <2> SUFFICES ASSUME causes' \cap BreakCauses[kind] = {} PROVE ChainOK'
    BY <1>1, <1>2 DEF ChainOK
  <2>1. causes \cap BreakCauses[kind] = {} /\ kind \notin Networks /\ lines' = lines
    BY <1>3, <1>6 DEF Restart, Networks, medium
  <2>2. ~(Entries # {} /\ HashOnStart = initialHash) /\ lastHash' = HashOnStart
    <3>1. "unread" \notin causes' /\ "blank" \notin causes'
      BY <1>6 DEF BreakCauses
    <3>2. HashOnStart = RestoredHash
      BY <1>6 DEF HashOnStart
    <3> QED
      BY <1>1, <1>6, <3>1, <3>2 DEF Restart
  <2>3. HashOnStart = HashOf(lines) /\ LinkedAll(lines) /\ HashOf(lines) \in Seq(1..m)
    BY <1>6, <2>1, <2>2, Unbroken, StartHash DEF ChainOK
  <2>4. Sealed(HashOf(lines), EventsOf(<< >>)) = << >> /\ chainHashOf(HashOf(lines), EventsOf(<< >>)) = HashOf(lines)
    BY <2>3, NothingSealed
  <2> QED
    BY <1>1, <1>6, <2>1, <2>2, <2>3, <2>4 DEF ChainOK
<1>7. CASE kind = "file"
  <2>1. ChainOK'
    BY <1>1, <1>3, <1>7 DEF ChainOK, BreakCauses
  <2> QED
    BY <1>2, <2>1
<1>8. CASE kind \in Networks
  <2>1. ChainOK'
    BY <1>1, <1>8 DEF ChainOK
  <2> QED
    BY <1>2, <2>1
<1> QED
  BY <1>1, <1>4, <1>5, <1>6, <1>7, <1>8 DEF Kinds, Networks

\* What breaks the chain is one of its causes.
LEMMA ChainStep == BaseInv /\ ChainOK /\ SealOK /\ [AuditNext]_auditVars => ChainOK' /\ SealOK'
<1> SUFFICES ASSUME BaseInv, ChainOK, SealOK, [AuditNext]_auditVars PROVE ChainOK' /\ SealOK'
  OBVIOUS
<1>1. ASSUME kind # "worm", UNCHANGED kind PROVE SealOK'
  BY <1>1 DEF SealOK
<1>2. ASSUME kind \in Networks, UNCHANGED kind PROVE ChainOK' /\ SealOK'
  BY <1>1, <1>2 DEF ChainOK, Networks
<1>3. ASSUME record PROVE ChainOK' /\ SealOK'
  <2>1. PICK m \in Nat : m = nextEvent
    BY DEF BaseInv
  <2>2. Base(m) /\ m \in 1..m /\ UNCHANGED kind
    BY <1>3, <2>1, RecordBase DEF record
  <2>3. \/ MemoryWrite(m) \/ EventLogAppend(m) \/ FileWrite(m) \/ WormWrite(m)
        \/ HttpWrite(m) \/ SyslogWrite(m)
    BY <1>3, <2>1 DEF record
  <2>4. CASE MemoryWrite(m)
    BY <1>1, <2>2, <2>4, MemoryChain DEF MemoryWrite
  <2>5. CASE EventLogAppend(m)
    BY <1>1, <2>2, <2>5, EventLogChain DEF EventLogAppend
  <2>6. CASE FileWrite(m)
    BY <1>1, <2>2, <2>6, FileChain DEF FileWrite
  <2>7. CASE WormWrite(m)
    BY <2>2, <2>7, WormChain
  <2>8. CASE HttpWrite(m) \/ SyslogWrite(m)
    BY <1>2, <2>2, <2>8 DEF HttpWrite, SyslogWrite, Networks
  <2> QED
    BY <2>3, <2>4, <2>5, <2>6, <2>7, <2>8
<1>4. PICK m \in Nat : m = nextEvent - 1
  BY DEF BaseInv
<1>5. Base(m)
  BY <1>4 DEF BaseInv
<1>6. ASSUME flush PROVE ChainOK' /\ SealOK'
  <2>1. buffer \in Seq(Entry(m)) /\ buffer # << >> /\ 0 \in 0..m /\ UNCHANGED kind
    BY <1>5, <1>6 DEF flush, Base, Types
  <2>2. CASE kind = "file" /\ FileFlush(buffer, 0)
    BY <1>1, <1>5, <2>1, <2>2, FileFlushChain
  <2>3. CASE kind = "worm" /\ WormFlush(buffer, 0) /\ UNCHANGED lastHash
    <3>1. buffer[Len(buffer)].hash = lastHash'
      BY <2>1, <2>3 DEF SealOK
    <3>2. causes \cap BreakCauses[kind] = {} =>
              /\ buffer = Sealed(HashOf(lines), EventsOf(buffer))
              /\ lastHash' = chainHashOf(HashOf(lines), EventsOf(buffer))
      BY <2>3 DEF ChainOK, Networks
    <3> QED
      BY <1>5, <2>1, <2>3, <3>1, <3>2, WormFlushChain
  <2>4. CASE kind \in Networks
    BY <1>2, <2>1, <2>4
  <2> QED
    BY <1>6, <2>2, <2>3, <2>4 DEF flush
<1>7. ASSUME makeSegmentImmutable \/ Archive \/ UNCHANGED auditVars PROVE ChainOK' /\ SealOK'
  <2>1. UNCHANGED <<kind, buffer, lastHash, lines, causes>>
    BY <1>7 DEF makeSegmentImmutable, Archive, medium, auditVars
  <2> QED
    BY <2>1 DEF ChainOK, SealOK
<1>8. CASE \E i \in 1..Len(flights) : HttpArrives(i) \/ HttpAnswered(i) \/ HttpUnanswered(i)
  BY <1>2, <1>8 DEF HttpArrives, HttpAnswered, HttpUnanswered, Networks
<1>9. CASE \E i \in 1..Len(flights), ok, arrives \in BOOLEAN : SyslogSent(i, ok, arrives)
  BY <1>2, <1>9 DEF SyslogSent, Networks
<1>10. CASE Restart
  BY <1>5, <1>10, RestartChain
<1> QED
  BY <1>3, <1>6, <1>7, <1>8, <1>9, <1>10 DEF AuditNext

\* It begins with no line.
LEMMA ChainStart == AuditInit => ChainOK /\ SealOK
<1> SUFFICES ASSUME AuditInit PROVE ChainOK /\ SealOK
  OBVIOUS
<1>1. Len(<< >>) = 0 /\ initialHash \in Seq(1..0)
  BY EmptySeq DEF initialHash
<1>2. /\ Sealed(initialHash, EventsOf(<< >>)) = << >>
      /\ chainHashOf(initialHash, EventsOf(<< >>)) = initialHash
  BY <1>1, NothingSealed
<1>3. HashOf(<< >>) = initialHash /\ LinkedAll(<< >>)
  BY <1>1 DEF HashOf, LinkedAll
<1>4. lines = << >> /\ buffer = << >> /\ lastHash = initialHash
  BY DEF AuditInit
<1> QED
  BY <1>2, <1>3, <1>4 DEF ChainOK, SealOK

\* A chain of linked lines verifies.
LEMMA ChainVerifies == BaseInv /\ ChainOK /\ SealOK => ChainBreaksExcused
<1> SUFFICES ASSUME BaseInv, ChainOK, SealOK PROVE ChainBreaksExcused
  OBVIOUS
<1>1. PICK m \in Nat : m = nextEvent - 1
  BY DEF BaseInv
<1>2. Base(m)
  BY <1>1 DEF BaseInv
<1>3. ASSUME causes \cap BreakCauses[kind] = {}, kind \notin Networks PROVE verify
  <2>1. Entries = 1..Len(lines) /\ LinkedAll(lines) /\ Len(lines) \in Nat
    BY <1>2, <1>3, Unbroken, LenProperties DEF ChainOK
  <2>2. ASSUME NEW j \in Entries
        PROVE  \/ /\ \A k \in 1..(j - 1) : lines[k] = Garbage
                  /\ lines[j].hash = chainHashOf(initialHash, <<lines[j].ev>>)
               \/ \E i \in 1..(j - 1) :
                     /\ lines[i] # Garbage /\ \A k \in (i + 1)..(j - 1) : lines[k] = Garbage
                     /\ lines[j].hash = chainHashOf(lines[i].hash, <<lines[j].ev>>)
    <3>1. /\ j \in 1..Len(lines)
          /\ lines[j].hash = chainHashOf(IF j = 1 THEN initialHash ELSE lines[j - 1].hash, <<lines[j].ev>>)
      BY <2>1 DEF LinkedAll
    <3>2. CASE j = 1
      <4>1. 1..(j - 1) = {}
        BY <3>2
      <4> QED
        BY <3>1, <3>2, <4>1
    <3>3. CASE j # 1
      <4>1. j - 1 \in 1..(j - 1) /\ j - 1 \in 1..Len(lines) /\ (j - 1 + 1)..(j - 1) = {}
        BY <2>1, <3>1, <3>3
      <4>2. lines[j - 1] # Garbage
        BY <2>1, <4>1 DEF Entries
      <4> QED
        BY <3>1, <3>3, <4>1, <4>2
    <3> QED
      BY <3>2, <3>3
  <2> QED
    BY <2>1, <2>2 DEF verify, Linked
<1> QED
  BY <1>3 DEF ChainBreaksExcused, SealOK

\* However many events, segments, failures and restarts: verification finds a
\* broken chain only after one of the causes named, and the check of
\* WormAuditSink.write never throws.
THEOREM ChainBreaks == AuditSpec => []ChainBreaksExcused
<1> DEFINE Inv == BaseInv /\ ChainOK /\ SealOK
<1>1. Inv /\ [AuditNext]_auditVars => Inv'
  BY BaseStep, ChainStep
<1>2. AuditInit => Inv
  BY BaseStart, ChainStart
<1>3. Inv => ChainBreaksExcused
  BY ChainVerifies
<1> QED
  BY <1>1, <1>2, <1>3, PTL DEF AuditSpec
-----------------------------------------------------------------------------
(* What was acknowledged is kept *)

\* What memory holds.
LEMMA Memory ==
    InMemory = EventSet(buffer) \cup OnWay(flights) \cup (IF kind = "memory" THEN StoredEvents ELSE {})
BY DEF InMemory, OnWay, FlightEvents

\* A flush that begins.
LEMMA FlightsAppend ==
    ASSUME NEW S, NEW fs \in Seq(S), NEW f \in S, NEW k, NEW st, NEW cs
    PROVE  /\ OnWay(Append(fs, f)) = OnWay(fs) \cup FlightEvents(f)
           /\ FlightsOK(fs, k, st, cs) /\ FlightOK(f, k, st, cs) => FlightsOK(Append(fs, f), k, st, cs)
<1> DEFINE t == Append(fs, f)
<1>1. Len(fs) \in Nat
  BY LenProperties
<1>2. Len(t) = Len(fs) + 1 /\ (\A i \in 1..Len(fs) : t[i] = fs[i]) /\ t[Len(fs) + 1] = f
  BY AppendProperties
<1> HIDE DEF t
<1>3. /\ \A i \in 1..Len(t) : i \in 1..Len(fs) \/ i = Len(fs) + 1
      /\ \A i \in 1..Len(fs) : i \in 1..Len(t)
      /\ Len(fs) + 1 \in 1..Len(t)
  BY <1>1, <1>2
<1>4. OnWay(t) = OnWay(fs) \cup FlightEvents(f)
  <2>1. OnWay(t) \subseteq OnWay(fs) \cup FlightEvents(f)
    BY <1>2, <1>3 DEF OnWay
  <2>2. OnWay(fs) \subseteq OnWay(t)
    BY <1>2, <1>3 DEF OnWay
  <2>3. FlightEvents(f) \subseteq OnWay(t)
    BY <1>2, <1>3 DEF OnWay
  <2> QED
    BY <2>1, <2>2, <2>3
<1>5. FlightsOK(fs, k, st, cs) /\ FlightOK(f, k, st, cs) => FlightsOK(t, k, st, cs)
  BY <1>2, <1>3 DEF FlightsOK
<1> QED
  BY <1>4, <1>5 DEF t

\* A flush that ends.
LEMMA FlightsWithout ==
    ASSUME NEW S, NEW fs \in Seq(S), NEW i \in 1..Len(fs), NEW k, NEW st, NEW cs
    PROVE  /\ OnWay(fs) \subseteq OnWay(Without(fs, i)) \cup FlightEvents(fs[i])
           /\ FlightsOK(fs, k, st, cs) => FlightsOK(Without(fs, i), k, st, cs)
<1> DEFINE t == Without(fs, i)
<1>1. /\ \A j \in 1..Len(t) : \E n \in 1..Len(fs) : t[j] = fs[n]
      /\ \A n \in 1..Len(fs) : n # i => \E j \in 1..Len(t) : t[j] = fs[n]
  BY Removed
<1> HIDE DEF t
<1>2. OnWay(fs) \subseteq OnWay(t) \cup FlightEvents(fs[i])
  <2>1. ASSUME NEW n \in 1..Len(fs) PROVE FlightEvents(fs[n]) \subseteq OnWay(t) \cup FlightEvents(fs[i])
    <3>1. CASE n = i
      BY <3>1
    <3>2. CASE n # i
      <4>1. PICK j \in 1..Len(t) : t[j] = fs[n]
        BY <1>1, <3>2
      <4> QED
        BY <4>1 DEF OnWay
    <3> QED
      BY <3>1, <3>2
  <2> QED
    BY <2>1 DEF OnWay
<1>3. FlightsOK(fs, k, st, cs) => FlightsOK(t, k, st, cs)
  BY <1>1 DEF FlightsOK
<1> QED
  BY <1>2, <1>3 DEF t

\* A flush that goes on.
LEMMA FlightsExcept ==
    ASSUME NEW S, NEW fs \in Seq(S), NEW i \in 1..Len(fs), NEW g \in S, NEW k, NEW st, NEW cs
    PROVE  /\ OnWay(fs) \subseteq OnWay([fs EXCEPT ![i] = g]) \cup FlightEvents(fs[i])
           /\ FlightEvents(g) \subseteq OnWay([fs EXCEPT ![i] = g])
           /\ FlightsOK(fs, k, st, cs) /\ FlightOK(g, k, st, cs) =>
                  FlightsOK([fs EXCEPT ![i] = g], k, st, cs)
<1> DEFINE t == [fs EXCEPT ![i] = g]
<1>1. Len(t) = Len(fs) /\ \A j \in 1..Len(fs) : t[j] = IF j = i THEN g ELSE fs[j]
  BY ExceptSeq
<1> HIDE DEF t
<1>2. OnWay(fs) \subseteq OnWay(t) \cup FlightEvents(fs[i])
  <2>1. ASSUME NEW n \in 1..Len(fs) PROVE FlightEvents(fs[n]) \subseteq OnWay(t) \cup FlightEvents(fs[i])
    <3>1. CASE n = i
      BY <3>1
    <3>2. CASE n # i
      <4>1. n \in 1..Len(t) /\ t[n] = fs[n]
        BY <1>1, <3>2
      <4> QED
        BY <4>1 DEF OnWay
    <3> QED
      BY <3>1, <3>2
  <2> QED
    BY <2>1 DEF OnWay
<1>3. FlightEvents(g) \subseteq OnWay(t)
  <2>1. i \in 1..Len(t) /\ t[i] = g
    BY <1>1
  <2> QED
    BY <2>1 DEF OnWay
<1>4. FlightsOK(fs, k, st, cs) /\ FlightOK(g, k, st, cs) => FlightsOK(t, k, st, cs)
  BY <1>1 DEF FlightsOK
<1> QED
  BY <1>2, <1>3, <1>4 DEF t

\* More stored events and more causes excuse no less.
LEMMA FlightsMore ==
    ASSUME NEW fs, NEW k, NEW st, NEW cs, NEW st2, NEW cs2, st \subseteq st2, cs \subseteq cs2,
           FlightsOK(fs, k, st, cs)
    PROVE  FlightsOK(fs, k, st2, cs2)
<1>1. ASSUME NEW i \in 1..Len(fs) PROVE FlightOK(fs[i], k, st2, cs2)
  <2>1. FlightOK(fs[i], k, st, cs)
    BY DEF FlightsOK
  <2> QED
    BY <2>1 DEF FlightOK
<1> QED
  BY <1>1 DEF FlightsOK

\* A sink without flushes under way keeps what it has stored or buffered.
LEMMA LocalLoss ==
    ASSUME kind \notin Networks, UNCHANGED kind, LossOK, SinkOK, SinkOK', causes \subseteq causes',
           causes' \cap LossCauses[kind] = {} =>
               /\ StoredEvents \cup EventSet(buffer) \cup crashed
                      \subseteq StoredEvents' \cup EventSet(buffer') \cup crashed'
               /\ acked' \subseteq acked \cup StoredEvents' \cup EventSet(buffer')
    PROVE  LossOK'
<1>1. flights = << >> /\ flights' = << >> /\ 1..Len(<< >>) = {}
  BY EmptySeq DEF SinkOK
<1>2. OnWay(flights) = {} /\ FlightsOK(flights', kind', StoredEvents', causes')
  BY <1>1 DEF OnWay, FlightsOK
<1>3. InMemory = EventSet(buffer) \cup OnWay(flights) \cup (IF kind = "memory" THEN StoredEvents ELSE {})
  BY Memory
<1>4. EventSet(buffer') \subseteq InMemory'
  BY DEF InMemory
<1>5. ASSUME causes' \cap LossCauses[kind'] = {} PROVE acked' \subseteq Held'
  <2>1. causes' \cap LossCauses[kind] = {} /\ causes \cap LossCauses[kind] = {}
    BY <1>5
  <2>2. acked \subseteq StoredEvents \cup EventSet(buffer) \cup crashed
    BY <1>2, <1>3, <2>1 DEF LossOK, Held
  <2>3. StoredEvents' \cup EventSet(buffer') \cup crashed' \subseteq Held'
    BY <1>4 DEF Held
  <2> QED
    BY <2>1, <2>2, <2>3
<1> QED
  BY <1>2, <1>5 DEF LossOK

\* A network sink keeps what it has stored, buffered or on its way.
LEMMA NetworkLoss ==
    ASSUME kind \in Networks, UNCHANGED kind, LossOK, causes \subseteq causes',
           FlightsOK(flights', kind, StoredEvents', causes'),
           causes' \cap LossCauses[kind] = {} =>
               /\ StoredEvents \cup EventSet(buffer) \cup OnWay(flights) \cup crashed
                      \subseteq StoredEvents' \cup EventSet(buffer') \cup OnWay(flights') \cup crashed'
               /\ acked' \subseteq acked \cup StoredEvents' \cup EventSet(buffer') \cup OnWay(flights')
    PROVE  LossOK'
<1>1. kind # "memory"
  BY DEF Networks
<1>2. InMemory = EventSet(buffer) \cup OnWay(flights)
  BY <1>1, Memory
<1>3. EventSet(buffer') \cup OnWay(flights') \subseteq InMemory'
  BY DEF InMemory, OnWay, FlightEvents
<1>4. ASSUME causes' \cap LossCauses[kind'] = {} PROVE acked' \subseteq Held'
  <2>1. causes' \cap LossCauses[kind] = {} /\ causes \cap LossCauses[kind] = {}
    BY <1>4
  <2>2. acked \subseteq StoredEvents \cup EventSet(buffer) \cup OnWay(flights) \cup crashed
    BY <1>2, <2>1 DEF LossOK, Held
  <2>3. StoredEvents' \cup EventSet(buffer') \cup OnWay(flights') \cup crashed' \subseteq Held'
    BY <1>3 DEF Held
  <2> QED
    BY <2>1, <2>2, <2>3
<1> QED
  BY <1>4 DEF LossOK

\* The memory sink and the event log store what they acknowledge.
LEMMA DirectLoss ==
    ASSUME NEW m \in Nat, NEW e \in 1..m, Base(m), Base(m)', LossOK, UNCHANGED kind,
           MemoryWrite(e) \/ EventLogAppend(e)
    PROVE  LossOK'
<1> DEFINE ls == Sealed(lastHash, <<e>>)
           n  == 1
<1>1. /\ kind \in {"memory", "eventlog"} /\ kind \notin Networks /\ Acknowledge(e, TRUE)
      /\ UNCHANGED <<buffer, crashed>>
  BY DEF MemoryWrite, EventLogAppend, Networks
<1>2. ls \in Seq(Entry(m)) /\ ls # << >> /\ EventSet(ls) = {e}
  BY OneEntry DEF Base, Types
<1>3. /\ lines \in Seq(Line(m)) /\ FilesOK /\ causes \subseteq Causes /\ faults \in 0..MaxFaults
      /\ n \in {Len(starts), Len(starts) + 1} /\ n \in Nat \ {0} /\ {} \subseteq {"overwritten"}
  BY <1>1 DEF Base, Types, Places, SinkOK
<1>4. causes \subseteq causes' /\ (causes' \cap LossCauses[kind] = {} => lines' = lines \o ls)
  <2>1. CASE MemoryWrite(e)
    BY <1>2, <2>1, Arrives DEF MemoryWrite
  <2>2. CASE EventLogAppend(e)
    <3>1. PICK o \in Outcomes(n) : AppendFile(n, ls, o, {})
      BY <2>2 DEF EventLogAppend
    <3> HIDE DEF n, ls
    <3>2. /\ causes' = causes \cup {} \cup ({o} \ {"ok"})
          /\ "torn" \notin causes' =>
                 (o = "ok" /\ lines' = lines \o ls) \/ (o = "failed" /\ lines' = lines)
      BY <1>2, <1>3, <3>1, Appends
    <3>3. kind = "eventlog"
      BY <2>2 DEF EventLogAppend
    <3> QED
      BY <3>2, <3>3 DEF LossCauses
  <2> QED
    BY <2>1, <2>2
<1> HIDE DEF ls, n
<1>5. ASSUME causes' \cap LossCauses[kind] = {} PROVE StoredEvents' = StoredEvents \cup {e}
  BY <1>2, <1>3, <1>4, <1>5, Added
<1>6. acked' \subseteq acked \cup {e}
  BY <1>1 DEF Acknowledge
<1>7. SinkOK /\ SinkOK'
  BY DEF Base
<1> QED
  BY <1>1, <1>4, <1>5, <1>6, <1>7, LocalLoss

\* The events of a buffer, as a sequence and as a set.
LEMMA EventsRange ==
    ASSUME NEW m \in Nat, NEW buf \in Seq(Entry(m))
    PROVE  Range(EventsOf(buf)) = EventSet(buf)
<1>1. \A i \in 1..Len(buf) : EventsOf(buf)[i] = buf[i].ev
  BY EventsOfType
<1>2. DOMAIN EventsOf(buf) = 1..Len(buf)
  BY DEF EventsOf
<1> QED
  BY <1>1, <1>2 DEF Range, EventSet

\* Sealing keeps the events.
LEMMA SealedEvents ==
    ASSUME NEW m \in Nat, NEW h \in Seq(1..m), NEW buf \in Seq(Entry(m))
    PROVE  EventSet(Sealed(h, EventsOf(buf))) = EventSet(buf)
<1>1. EventsOf(buf) \in Seq(1..m)
  BY EventsOfType
<1>2. EventSet(Sealed(h, EventsOf(buf))) = Range(EventsOf(buf))
  BY <1>1, SealedType
<1> QED
  BY <1>2, EventsRange

\* The file sink stores its buffer, or keeps it.
LEMMA FileFlushLoss ==
    ASSUME NEW m \in Nat, NEW buf \in Seq(Entry(m)), buf # << >>, NEW e \in 0..m, Base(m), Base(m)', LossOK,
           kind = "file", UNCHANGED <<kind, crashed>>, FileFlush(buf, e),
           EventSet(buffer) \subseteq EventSet(buf), e # 0 => e \in EventSet(buf)
    PROVE  LossOK'
<1> DEFINE ls == Sealed(lastHash, EventsOf(buf))
<1>1. /\ lastHash \in Seq(1..m) /\ lines \in Seq(Line(m)) /\ FilesOK
      /\ causes \subseteq Causes /\ faults \in 0..MaxFaults
  BY DEF Base, Types, Places
<1>2. EventsOf(buf) \in Seq(1..m) /\ Len(EventsOf(buf)) = Len(buf) /\ Len(buf) \in Nat \ {0}
  BY EventsOfType, EmptySeq
<1>3. ls \in Seq(Entry(m)) /\ ls # << >> /\ EventSet(ls) = EventSet(buf)
  <2>1. ls \in Seq(Entry(m)) /\ Len(ls) = Len(buf)
    BY <1>1, <1>2, SealedType
  <2>2. Len(ls) # 0 /\ Len(<< >>) = 0
    BY <1>2, <2>1, EmptySeq
  <2> QED
    BY <1>1, <2>1, <2>2, SealedEvents
<1>4. PICK r \in Rotations : \E o \in Outcomes(r.seg) :
        /\ AppendFile(r.seg, ls, o, r.cs)
        /\ buffer' = IF o = "ok" THEN << >> ELSE buf
        /\ Acknowledge(e, o = "ok")
  BY DEF FileFlush
<1>5. PICK o \in Outcomes(r.seg) :
        /\ AppendFile(r.seg, ls, o, r.cs)
        /\ buffer' = IF o = "ok" THEN << >> ELSE buf
        /\ Acknowledge(e, o = "ok")
  BY <1>4
<1> HIDE DEF ls
<1>6. r.seg \in {Len(starts), Len(starts) + 1} /\ r.seg \in Nat \ {0} /\ r.cs \subseteq {"overwritten"}
  BY Rotating
<1>7. /\ causes' = causes \cup r.cs \cup ({o} \ {"ok"})
      /\ "torn" \notin causes' =>
             (o = "ok" /\ lines' = lines \o ls) \/ (o = "failed" /\ lines' = lines)
  BY <1>1, <1>3, <1>5, <1>6, Appends
<1>8. acked' \subseteq acked \cup ({e} \ {0})
  BY <1>5 DEF Acknowledge
<1>9. ASSUME causes' \cap LossCauses[kind] = {}
      PROVE  StoredEvents \cup EventSet(buf) \subseteq StoredEvents' \cup EventSet(buffer')
  <2>1. "torn" \notin causes'
    BY <1>9 DEF LossCauses
  <2>2. CASE o = "ok" /\ lines' = lines \o ls
    BY <1>1, <1>3, <2>2, Added
  <2>3. CASE o = "failed" /\ lines' = lines
    BY <1>5, <2>3 DEF StoredEvents, Entries
  <2> QED
    BY <1>7, <2>1, <2>2, <2>3
<1>10. SinkOK /\ SinkOK' /\ kind \notin Networks /\ causes \subseteq causes'
  BY <1>7 DEF Base, Networks
<1> QED
  BY <1>8, <1>9, <1>10, LocalLoss

\* A write of the file sink.
LEMMA FileLoss ==
    ASSUME NEW m \in Nat, NEW e \in 1..m, Base(m), Base(m)', LossOK, UNCHANGED kind, FileWrite(e)
    PROVE  LossOK'
<1> DEFINE buf == Append(buffer, Unsealed(e))
<1>1. buf \in Seq(Entry(m)) /\ buf # << >> /\ e \in 0..m /\ EventSet(buf) = EventSet(buffer) \cup {e}
  <2>1. buffer \in Seq(Entry(m)) /\ lastHash \in Seq(1..m)
    BY DEF Base, Types
  <2>2. Unsealed(e) \in Entry(m) /\ Unsealed(e).ev = e
    BY <2>1, OneEntry
  <2>3. e \in 0..m
    OBVIOUS
  <2> QED
    BY <2>1, <2>2, <2>3, EventsAppend
<1>2. kind = "file" /\ UNCHANGED crashed
  BY DEF FileWrite
<1>3. CASE Len(buf) >= FlushSize
  <2>1. FileFlush(buf, e)
    BY <1>3 DEF FileWrite
  <2> HIDE DEF buf
  <2> QED
    BY <1>1, <1>2, <2>1, FileFlushLoss
<1>4. CASE ~(Len(buf) >= FlushSize)
  <2>1. UNCHANGED <<lines, causes>> /\ buffer' = buf /\ acked' \subseteq acked \cup {e}
    BY <1>4 DEF FileWrite, medium, Acknowledge
  <2> HIDE DEF buf
  <2>2. StoredEvents' = StoredEvents
    BY <2>1 DEF StoredEvents, Entries
  <2>3. SinkOK /\ SinkOK' /\ kind \notin Networks
    BY <1>2 DEF Base, Networks
  <2> QED
    BY <1>1, <1>2, <2>1, <2>2, <2>3, LocalLoss
<1> QED
  BY <1>3, <1>4

\* The WORM sink stores its buffer, or keeps it.
LEMMA WormFlushLoss ==
    ASSUME NEW m \in Nat, NEW buf \in Seq(Entry(m)), buf # << >>, NEW e \in 0..m, Base(m), Base(m)', LossOK,
           kind = "worm", UNCHANGED <<kind, crashed>>, WormFlush(buf, e),
           EventSet(buffer) \subseteq EventSet(buf), e # 0 => e \in EventSet(buf)
    PROVE  LossOK'
<1> DEFINE n == WormSegment
<1>1. /\ lines \in Seq(Line(m)) /\ FilesOK /\ causes \subseteq Causes /\ faults \in 0..MaxFaults
      /\ {} \subseteq {"overwritten"}
  BY DEF Base, Types, Places
<1>2. n \in {Len(starts), Len(starts) + 1} /\ n \in Nat \ {0}
  BY NextSegment
<1>3. acked' \subseteq acked \cup ({e} \ {0})
  BY DEF WormFlush, WormRefused, WormAppended, Acknowledge
<1>4. SinkOK /\ SinkOK' /\ kind \notin Networks
  BY DEF Base, Networks
<1>5. CASE WormRefused(e)
  <2>1. "refused" \in causes' /\ causes \subseteq causes'
    BY <1>5 DEF WormRefused
  <2>2. causes' \cap LossCauses[kind] # {}
    BY <2>1 DEF LossCauses
  <2> QED
    BY <1>4, <2>1, <2>2, LocalLoss
<1>6. CASE WormAppended(buf, e)
  <2>1. PICK o \in Outcomes(n) : AppendFile(n, buf, o, {}) /\ buffer' = IF o = "ok" THEN << >> ELSE buf
    BY <1>6 DEF WormAppended
  <2> HIDE DEF n
  <2>2. /\ causes' = causes \cup {} \cup ({o} \ {"ok"})
        /\ "torn" \notin causes' =>
               (o = "ok" /\ lines' = lines \o buf) \/ (o = "failed" /\ lines' = lines)
    BY <1>1, <1>2, <2>1, Appends
  <2>3. ASSUME causes' \cap LossCauses[kind] = {}
        PROVE  StoredEvents \cup EventSet(buf) \subseteq StoredEvents' \cup EventSet(buffer')
    <3>1. "torn" \notin causes'
      BY <2>3 DEF LossCauses
    <3>2. CASE o = "ok" /\ lines' = lines \o buf
      BY <1>1, <3>2, Added
    <3>3. CASE o = "failed" /\ lines' = lines
      BY <2>1, <3>3 DEF StoredEvents, Entries
    <3> QED
      BY <2>2, <3>1, <3>2, <3>3
  <2>4. causes \subseteq causes'
    BY <2>2
  <2> QED
    BY <1>3, <1>4, <2>3, <2>4, LocalLoss
<1> QED
  BY <1>5, <1>6 DEF WormFlush

\* A write of the WORM sink.
LEMMA WormLoss ==
    ASSUME NEW m \in Nat, NEW e \in 1..m, Base(m), Base(m)', LossOK, UNCHANGED kind, WormWrite(e)
    PROVE  LossOK'
<1> DEFINE buf == WormBuf(e)
<1>1. buf = WormBuf(e) /\ e \in 0..m
  OBVIOUS
<1>2. kind = "worm" /\ UNCHANGED crashed
  BY DEF WormWrite
<1>3. \/ WormFlush(buf, e)
      \/ buffer' = buf /\ Acknowledge(e, TRUE) /\ UNCHANGED <<medium, causes>>
  BY DEF WormWrite, WormBuf
<1> HIDE DEF buf
<1>4. buf \in Seq(Entry(m)) /\ buf # << >> /\ EventSet(buf) = EventSet(buffer) \cup {e}
  BY <1>1, WormBuffer
<1>5. CASE WormFlush(buf, e)
  BY <1>1, <1>2, <1>4, <1>5, WormFlushLoss
<1>6. CASE buffer' = buf /\ Acknowledge(e, TRUE) /\ UNCHANGED <<medium, causes>>
  <2>1. StoredEvents' = StoredEvents
    BY <1>6 DEF StoredEvents, Entries, medium
  <2>2. SinkOK /\ SinkOK' /\ kind \notin Networks /\ acked' \subseteq acked \cup {e}
    BY <1>2, <1>6 DEF Base, Networks, Acknowledge
  <2> QED
    BY <1>2, <1>4, <1>6, <2>1, <2>2, LocalLoss
<1> QED
  BY <1>3, <1>5, <1>6

\* The events still to send, after the first.
LEMMA RangeTail ==
    ASSUME NEW S, NEW s \in Seq(S), s # << >>
    PROVE  Range(s) = {Head(s)} \cup Range(Tail(s)) /\ Head(s) = s[1] /\ Range(<< >>) = {}
<1>1. Len(s) \in Nat \ {0} /\ DOMAIN s = 1..Len(s) /\ Head(s) = s[1]
  BY EmptySeq, LenProperties
<1> DEFINE t == Tail(s)
<1>2. t \in Seq(S) /\ Len(t) = Len(s) - 1 /\ \A i \in 1..Len(t) : t[i] = s[i + 1]
  BY HeadTailProperties
<1> HIDE DEF t
<1>3. DOMAIN t = 1..Len(t)
  BY <1>2, LenProperties
<1>4. Range(s) \subseteq {s[1]} \cup Range(t)
  <2>1. ASSUME NEW i \in 1..Len(s) PROVE s[i] \in {s[1]} \cup Range(t)
    <3>1. CASE i # 1
      <4>1. i - 1 \in 1..Len(t) /\ (i - 1) + 1 = i
        BY <1>1, <1>2, <3>1
      <4>2. t[i - 1] = s[i]
        BY <1>2, <4>1
      <4> QED
        BY <1>3, <4>1, <4>2 DEF Range
    <3> QED
      BY <3>1
  <2> QED
    BY <1>1, <2>1 DEF Range
<1>5. {s[1]} \cup Range(t) \subseteq Range(s)
  <2>1. 1 \in DOMAIN s /\ \A i \in 1..Len(t) : i + 1 \in DOMAIN s
    BY <1>1, <1>2
  <2> QED
    BY <1>2, <1>3, <2>1 DEF Range
<1>6. Range(<< >>) = {}
  BY DEF Range
<1> QED
  BY <1>1, <1>4, <1>5, <1>6 DEF t

\* A flush of a network sink takes its buffer along.
LEMMA TakenLoss ==
    ASSUME NEW m \in Nat, NEW buf \in Seq(Entry(m)), buf # << >>, NEW e \in 0..m, Base(m), LossOK,
           kind \in Networks, UNCHANGED <<kind, medium, acked, crashed, causes>>,
           (kind = "http" /\ HttpFlush(buf, e)) \/ (kind = "syslog" /\ SyslogFlush(buf, e)),
           EventSet(buffer) \subseteq EventSet(buf), e # 0 => e \in EventSet(buf)
    PROVE  LossOK'
<1>1. /\ lastHash \in Seq(1..m) /\ flights \in Seq(Flights(m))
      /\ EventsOf(buf) \in Seq(1..m) /\ Len(EventsOf(buf)) = Len(buf) /\ Len(buf) \in Nat \ {0}
      /\ \A i \in 1..Len(buf) : EventsOf(buf)[i] = buf[i].ev
      /\ << >> \in Seq(1..m) /\ Len(<< >>) = 0
  BY EventsOfType, EmptySeq DEF Base, Types
<1>2. StoredEvents' = StoredEvents
  BY DEF StoredEvents, Entries, medium
<1>3. PICK f \in Flights(m) :
          /\ flights' = Append(flights, f) /\ FlightEvents(f) = EventSet(buf) /\ f.writer = e
          /\ kind = "http" => EventSet(f.out) = EventSet(buf) /\ ~f.arrived /\ f.todo = << >>
  <2>1. CASE kind = "http" /\ HttpFlush(buf, e)
    <3> DEFINE ls == Sealed(lastHash, EventsOf(buf))
               f == Flight(ls, << >>, e)
    <3>1. flights' = Append(flights, f)
      BY <2>1 DEF HttpFlush
    <3>2. ls \in Seq(Entry(m)) /\ EventSet(ls) = EventSet(buf)
      BY <1>1, SealedType, SealedEvents
    <3> HIDE DEF ls
    <3>3. f \in Flights(m)
      BY <1>1, <3>2, FlightType
    <3>4. f.out = ls /\ f.todo = << >> /\ f.writer = e /\ ~f.arrived
      BY DEF Flight
    <3>5. FlightEvents(f) = EventSet(buf)
      BY <3>2, <3>4 DEF FlightEvents, Range
    <3> QED
      BY <3>1, <3>2, <3>3, <3>4, <3>5
  <2>2. CASE kind = "syslog" /\ SyslogFlush(buf, e)
    <3> DEFINE d == buf[1].ev
               ls == Sealed(lastHash, <<d>>)
               todo == Tail(EventsOf(buf))
               f == Flight(ls, todo, e)
    <3>1. flights' = Append(flights, f)
      BY <2>2 DEF SyslogFlush
    <3>2. EventsOf(buf) # << >> /\ EventsOf(buf)[1] = d /\ d \in 1..m
      <4>1. 1 \in 1..Len(buf) /\ 1 \in 1..Len(EventsOf(buf))
        BY <1>1
      <4> QED
        BY <1>1, <4>1, ElementOfSeq
    <3>3. todo \in Seq(1..m) /\ Range(EventsOf(buf)) = {d} \cup Range(todo)
      BY <1>1, <3>2, HeadTailProperties, RangeTail
    <3>4. Range(EventsOf(buf)) = EventSet(buf)
      BY EventsRange
    <3> HIDE DEF d, todo
    <3>5. ls \in Seq(Entry(m)) /\ EventSet(ls) = {d}
      BY <1>1, <3>2, OneEntry
    <3> HIDE DEF ls
    <3>6. f \in Flights(m)
      BY <3>3, <3>5, FlightType
    <3>7. f.out = ls /\ f.todo = todo /\ f.writer = e
      BY DEF Flight
    <3>8. FlightEvents(f) = EventSet(buf)
      BY <3>3, <3>4, <3>5, <3>7 DEF FlightEvents
    <3> QED
      BY <2>2, <3>1, <3>6, <3>7, <3>8
  <2> QED
    BY <2>1, <2>2
<1>4. FlightOK(f, kind, StoredEvents, causes)
  BY <1>3 DEF FlightOK
<1>5. /\ OnWay(flights') = OnWay(flights) \cup EventSet(buf)
      /\ FlightsOK(flights', kind, StoredEvents, causes)
  BY <1>1, <1>3, <1>4, FlightsAppend DEF LossOK
<1> QED
  BY <1>2, <1>5, NetworkLoss

\* A write of a network sink.
LEMMA NetworkWriteLoss ==
    ASSUME NEW m \in Nat, NEW e \in 1..m, Base(m), LossOK, UNCHANGED kind, HttpWrite(e) \/ SyslogWrite(e)
    PROVE  LossOK'
<1> DEFINE buf == Append(buffer, Unsealed(e))
<1>1. buf \in Seq(Entry(m)) /\ buf # << >> /\ e \in 0..m /\ EventSet(buf) = EventSet(buffer) \cup {e}
  <2>1. buffer \in Seq(Entry(m)) /\ lastHash \in Seq(1..m)
    BY DEF Base, Types
  <2>2. Unsealed(e) \in Entry(m) /\ Unsealed(e).ev = e
    BY <2>1, OneEntry
  <2>3. e \in 0..m
    OBVIOUS
  <2> QED
    BY <2>1, <2>2, <2>3, EventsAppend
<1>2. UNCHANGED <<medium, crashed, causes>> /\ kind \in Networks
  BY DEF HttpWrite, SyslogWrite, Networks
<1>3. CASE BufferOnly(e)
  <2>1. buffer' = buf /\ acked' \subseteq acked \cup {e} /\ flights' = flights
    BY <1>3 DEF BufferOnly, Acknowledge
  <2>2. StoredEvents' = StoredEvents
    BY <1>2 DEF StoredEvents, Entries, medium
  <2> HIDE DEF buf
  <2>3. FlightsOK(flights', kind, StoredEvents', causes')
    BY <1>2, <2>1, <2>2 DEF LossOK
  <2> QED
    BY <1>1, <1>2, <2>1, <2>2, <2>3, NetworkLoss
<1>4. CASE UNCHANGED acked /\ ((kind = "http" /\ HttpFlush(buf, e)) \/ (kind = "syslog" /\ SyslogFlush(buf, e)))
  <2> HIDE DEF buf
  <2> QED
    BY <1>1, <1>2, <1>4, TakenLoss
<1> QED
  BY <1>3, <1>4 DEF HttpWrite, SyslogWrite

\* The http sink's batches: what arrives is stored, what is not answered goes
\* back to the buffer.
LEMMA HttpLoss ==
    ASSUME NEW m \in Nat, Base(m), LossOK, NEW i \in 1..Len(flights),
           HttpArrives(i) \/ HttpAnswered(i) \/ HttpUnanswered(i)
    PROVE  LossOK'
<1> DEFINE f == flights[i]
<1>1. kind = "http" /\ kind \in Networks /\ UNCHANGED <<kind, crashed>> /\ causes \subseteq causes'
  BY DEF HttpArrives, HttpAnswered, HttpUnanswered, Networks
<1>2. flights \in Seq(Flights(m)) /\ f \in Flights(m) /\ f.out \in Seq(Entry(m)) /\ buffer \in Seq(Entry(m))
  BY FlightFields DEF Base, Types
<1>3. /\ FlightsOK(flights, kind, StoredEvents, causes) /\ f.todo = << >>
      /\ f.writer # 0 => f.writer \in EventSet(f.out)
      /\ f.arrived => EventSet(f.out) \subseteq StoredEvents
  BY <1>1 DEF LossOK, FlightsOK, FlightOK
<1>4. FlightEvents(f) = EventSet(f.out)
  BY <1>3 DEF FlightEvents, Range
<1>5. /\ OnWay(flights) \subseteq OnWay(Without(flights, i)) \cup EventSet(f.out)
      /\ \A st, cs : FlightsOK(flights, kind, st, cs) => FlightsOK(Without(flights, i), kind, st, cs)
  BY <1>2, <1>4, FlightsWithout
<1>6. CASE HttpArrives(i)
  <2>1. Appended(1, f.out, TRUE) /\ UNCHANGED <<buffer, acked, causes>>
    BY <1>6 DEF HttpArrives
  <2>2. StoredEvents' = StoredEvents \cup EventSet(f.out)
    BY <1>1, <1>2, <2>1, Arrives
  <2>3. FlightsOK(flights, kind, StoredEvents', causes')
    BY <1>1, <1>3, <2>2, FlightsMore
  <2>4. FlightsOK(flights', kind, StoredEvents', causes') /\ OnWay(flights) \subseteq OnWay(flights') \cup EventSet(f.out)
    <3>1. CASE f.live
      <4> DEFINE g == [f EXCEPT !.arrived = TRUE]
      <4>1. flights' = [flights EXCEPT ![i] = g]
        BY <1>6, <3>1 DEF HttpArrives
      <4>2. g \in Flights(m) /\ g.out = f.out /\ g.todo = f.todo /\ g.writer = f.writer
        BY <1>2 DEF Flights
      <4>3. FlightOK(g, kind, StoredEvents', causes')
        BY <1>1, <1>3, <2>2, <4>2 DEF FlightOK
      <4> HIDE DEF g
      <4> QED
        BY <1>2, <1>4, <2>3, <4>1, <4>2, <4>3, FlightsExcept
    <3>2. CASE ~f.live
      <4>1. flights' = Without(flights, i)
        BY <1>6, <3>2 DEF HttpArrives
      <4> QED
        BY <1>5, <2>3, <4>1
    <3> QED
      BY <3>1, <3>2
  <2> QED
    BY <1>1, <2>1, <2>2, <2>4, NetworkLoss
<1>7. CASE HttpAnswered(i)
  <2>1. flights' = Without(flights, i) /\ UNCHANGED <<buffer, medium>>
    BY <1>7 DEF HttpAnswered
  <2>2. StoredEvents' = StoredEvents
    BY <2>1 DEF StoredEvents, Entries, medium
  <2>3. FlightsOK(flights', kind, StoredEvents', causes')
    <3>1. FlightsOK(flights, kind, StoredEvents', causes')
      BY <1>1, <1>3, <2>2, FlightsMore
    <3> QED
      BY <1>5, <2>1, <3>1
  <2>4. ASSUME causes' \cap LossCauses[kind] = {}
        PROVE  f.arrived /\ acked' \subseteq acked \cup ({f.writer} \ {0})
    <3>1. "rejected" \notin causes'
      BY <1>1, <2>4 DEF LossCauses
    <3> QED
      BY <1>7, <3>1 DEF HttpAnswered, Acknowledge
  <2> QED
    BY <1>1, <1>3, <1>5, <2>1, <2>2, <2>3, <2>4, NetworkLoss
<1>8. CASE HttpUnanswered(i)
  <2>1. UNCHANGED <<acked, medium>>
    BY <1>8 DEF HttpUnanswered
  <2>2. StoredEvents' = StoredEvents
    BY <2>1 DEF StoredEvents, Entries, medium
  <2>3. EventSet(buffer') = EventSet(f.out) \cup EventSet(buffer)
    <3>1. buffer' = Returned(f.out) \o buffer
      BY <1>8 DEF HttpUnanswered, Returned
    <3> HIDE DEF f
    <3> QED
      BY <1>2, <3>1, ReturnedType
  <2>4. FlightsOK(flights, kind, StoredEvents', causes')
    BY <1>1, <1>3, <2>2, FlightsMore
  <2>5. FlightsOK(flights', kind, StoredEvents', causes') /\ OnWay(flights) \subseteq OnWay(flights') \cup EventSet(f.out)
    <3>1. CASE f.arrived
      <4>1. flights' = Without(flights, i)
        BY <1>8, <3>1 DEF HttpUnanswered
      <4> QED
        BY <1>5, <2>4, <4>1
    <3>2. CASE ~f.arrived
      <4> DEFINE g == [f EXCEPT !.live = FALSE]
      <4>1. flights' = [flights EXCEPT ![i] = g]
        BY <1>8, <3>2 DEF HttpUnanswered
      <4>2. g \in Flights(m) /\ g.out = f.out /\ g.todo = f.todo /\ g.writer = f.writer /\ g.arrived = f.arrived
        BY <1>2 DEF Flights
      <4>3. FlightOK(g, kind, StoredEvents', causes')
        BY <1>1, <1>3, <2>2, <4>2 DEF FlightOK
      <4> HIDE DEF g
      <4> QED
        BY <1>2, <1>4, <2>4, <4>1, <4>2, <4>3, FlightsExcept
    <3> QED
      BY <3>1, <3>2
  <2> QED
    BY <1>1, <2>1, <2>2, <2>3, <2>5, NetworkLoss
<1> QED
  BY <1>6, <1>7, <1>8

\* The syslog sink's sends: without a send that fails or is lost, each event
\* arrives.
LEMMA SyslogLoss ==
    ASSUME NEW m \in Nat, Base(m), LossOK, NEW i \in 1..Len(flights), NEW ok \in BOOLEAN, NEW arrives \in BOOLEAN,
           SyslogSent(i, ok, arrives)
    PROVE  LossOK'
<1> DEFINE f == flights[i]
<1>1. kind = "syslog" /\ kind \in Networks /\ UNCHANGED <<kind, crashed, buffer>> /\ causes \subseteq causes'
  BY DEF SyslogSent, Networks
<1>2. /\ flights \in Seq(Flights(m)) /\ f \in Flights(m) /\ f.out \in Seq(Entry(m)) /\ f.todo \in Seq(1..m)
      /\ lastHash \in Seq(1..m) /\ FlightsOK(flights, kind, StoredEvents, causes)
  BY FlightFields DEF Base, Types, LossOK
<1>3. StoredEvents \subseteq StoredEvents' /\ (arrives => EventSet(f.out) \subseteq StoredEvents')
  <2>1. CASE arrives
    <3>1. Appended(1, f.out, TRUE)
      BY <2>1 DEF SyslogSent
    <3> HIDE DEF f
    <3>2. StoredEvents' = StoredEvents \cup EventSet(f.out)
      BY <1>1, <1>2, <3>1, Arrives
    <3> QED
      BY <3>2
  <2>2. CASE ~arrives
    BY <2>2 DEF SyslogSent, StoredEvents, Entries, medium
  <2> QED
    BY <2>1, <2>2
<1>4. "unsent" \notin causes' => arrives
  BY DEF SyslogSent
<1>5. FlightsOK(flights, kind, StoredEvents', causes')
  BY <1>1, <1>2, <1>3, FlightsMore
<1>6. causes' \cap LossCauses[kind] = {} => "unsent" \notin causes'
  BY <1>1 DEF LossCauses
<1>7. CASE f.todo = << >>
  <2>1. flights' = Without(flights, i) /\ Acknowledge(f.writer, f.ok /\ ok)
    BY <1>7 DEF SyslogSent
  <2>2. FlightEvents(f) = EventSet(f.out)
    BY <1>7 DEF FlightEvents, Range
  <2>3. acked' \subseteq acked \cup ({f.writer} \ {0})
    BY <2>1 DEF Acknowledge
  <2>4. "unsent" \notin causes' /\ f.writer # 0 => f.writer \in StoredEvents'
    <3>1. "unsent" \notin causes' /\ f.writer # 0 => f.writer \in FlightEvents(f) \cup StoredEvents'
      BY <1>1, <1>5 DEF FlightsOK, FlightOK
    <3> QED
      BY <1>3, <1>4, <2>2, <3>1
  <2>5. /\ OnWay(flights) \subseteq OnWay(flights') \cup FlightEvents(f)
        /\ FlightsOK(flights', kind, StoredEvents', causes')
    BY <1>2, <1>5, <2>1, FlightsWithout
  <2> HIDE DEF f
  <2> QED
    BY <1>1, <1>3, <1>4, <1>6, <2>2, <2>3, <2>4, <2>5, NetworkLoss
<1>8. CASE f.todo # << >>
  <2> DEFINE h == Head(f.todo)
             g == [f EXCEPT !.out = Sealed(lastHash, <<h>>), !.todo = Tail(f.todo), !.ok = f.ok /\ ok]
  <2>1. flights' = [flights EXCEPT ![i] = g] /\ acked' = acked
    BY <1>8 DEF SyslogSent
  <2>2. h \in 1..m /\ Tail(f.todo) \in Seq(1..m) /\ Range(f.todo) = {h} \cup Range(Tail(f.todo))
    BY <1>2, <1>8, HeadTailProperties, RangeTail
  <2>3. Sealed(lastHash, <<h>>) \in Seq(Entry(m)) /\ EventSet(Sealed(lastHash, <<h>>)) = {h}
    <3> HIDE DEF h
    <3> QED
      BY <1>2, <2>2, OneEntry
  <2>4. /\ g \in Flights(m) /\ g.out = Sealed(lastHash, <<h>>) /\ g.todo = Tail(f.todo)
        /\ g.writer = f.writer
    <3> HIDE DEF h
    <3>1. (f.ok /\ ok) \in BOOLEAN
      OBVIOUS
    <3> HIDE DEF f
    <3> QED
      BY <1>2, <2>2, <2>3, <3>1 DEF Flights
  <2> HIDE DEF g, h
  <2>5. FlightEvents(g) = Range(f.todo)
    BY <2>2, <2>3, <2>4 DEF FlightEvents
  <2>6. FlightOK(g, kind, StoredEvents', causes')
    <3>1. "unsent" \notin causes' /\ f.writer # 0 => f.writer \in FlightEvents(f) \cup StoredEvents'
      BY <1>1, <1>5 DEF FlightsOK, FlightOK
    <3>2. FlightEvents(f) = EventSet(f.out) \cup Range(f.todo)
      BY DEF FlightEvents
    <3>3. "unsent" \notin causes' /\ g.writer # 0 => g.writer \in FlightEvents(g) \cup StoredEvents'
      BY <1>3, <1>4, <2>4, <2>5, <3>1, <3>2
    <3> QED
      BY <1>1, <3>3 DEF FlightOK
  <2>7. /\ OnWay(flights) \subseteq OnWay(flights') \cup FlightEvents(f)
        /\ FlightEvents(g) \subseteq OnWay(flights')
        /\ FlightsOK(flights', kind, StoredEvents', causes')
    BY <1>2, <1>5, <2>1, <2>4, <2>6, FlightsExcept
  <2>8. "unsent" \notin causes' => FlightEvents(f) \subseteq StoredEvents' \cup OnWay(flights')
    BY <1>3, <1>4, <2>5, <2>7 DEF FlightEvents
  <2> HIDE DEF f
  <2> QED
    BY <1>1, <1>3, <1>6, <2>1, <2>7, <2>8, NetworkLoss
<1> QED
  BY <1>7, <1>8

\* A crash takes what only memory held, and it is told.
LEMMA RestartLoss ==
    ASSUME NEW m \in Nat, Base(m), LossOK, Restart
    PROVE  LossOK'
<1>1. /\ kind' = kind /\ flights' = << >> /\ crashed' = crashed \cup InMemory /\ acked' = acked
      /\ causes \subseteq causes' /\ 1..Len(<< >>) = {}
  BY EmptySeq DEF Restart
<1>2. FlightsOK(flights', kind', StoredEvents', causes')
  BY <1>1 DEF FlightsOK
<1>3. StoredEvents \subseteq StoredEvents' \cup crashed'
  <2>1. CASE kind = "memory"
    <3>1. StoredEvents \subseteq InMemory
      BY <2>1 DEF InMemory
    <3> QED
      BY <1>1, <3>1
  <2>2. CASE kind # "memory"
    <3>1. lines' = lines
      BY <2>2 DEF Restart, medium
    <3> QED
      BY <3>1 DEF StoredEvents, Entries
  <2> QED
    BY <2>1, <2>2
<1>4. Held \subseteq Held'
  <2>1. StoredEvents' \cup crashed' \subseteq Held'
    BY DEF Held
  <2> QED
    BY <1>1, <1>3, <2>1 DEF Held
<1> QED
  BY <1>1, <1>2, <1>4 DEF LossOK

\* An acknowledged event is kept unless one of the causes has lost it.
LEMMA LossStep == BaseInv /\ LossOK /\ [AuditNext]_auditVars => LossOK'
<1> SUFFICES ASSUME BaseInv, LossOK, [AuditNext]_auditVars PROVE LossOK'
  OBVIOUS
<1>1. CASE record
  <2>1. PICK m \in Nat : m = nextEvent
    BY DEF BaseInv
  <2>2. Base(m) /\ m \in 1..m /\ UNCHANGED kind /\ BaseInv' /\ nextEvent' = m + 1
    BY <1>1, <2>1, RecordBase DEF record
  <2>3. nextEvent' - 1 = m
    BY <2>2
  <2>4. Base(m)'
    BY <2>2, <2>3 DEF BaseInv
  <2>5. \/ MemoryWrite(m) \/ EventLogAppend(m) \/ FileWrite(m) \/ WormWrite(m)
        \/ HttpWrite(m) \/ SyslogWrite(m)
    BY <1>1, <2>1 DEF record
  <2> QED
    BY <2>2, <2>4, <2>5, DirectLoss, FileLoss, WormLoss, NetworkWriteLoss
<1>2. PICK m \in Nat : m = nextEvent - 1
  BY DEF BaseInv
<1>3. Base(m)
  BY <1>2 DEF BaseInv
<1>4. CASE flush
  <2>1. /\ buffer \in Seq(Entry(m)) /\ buffer # << >> /\ 0 \in 0..m
        /\ UNCHANGED <<kind, crashed>>
    BY <1>3, <1>4 DEF flush, Base, Types
  <2>2. Base(m)'
    BY <1>3, <1>4, FlushBase
  <2>3. CASE kind = "file" /\ FileFlush(buffer, 0)
    BY <1>3, <2>1, <2>2, <2>3, FileFlushLoss
  <2>4. CASE kind = "worm" /\ WormFlush(buffer, 0)
    BY <1>3, <2>1, <2>2, <2>4, WormFlushLoss
  <2>5. CASE /\ kind \in Networks /\ UNCHANGED <<medium, acked, causes>>
             /\ (kind = "http" /\ HttpFlush(buffer, 0)) \/ (kind = "syslog" /\ SyslogFlush(buffer, 0))
    BY <1>3, <2>1, <2>5, TakenLoss
  <2> QED
    BY <1>4, <2>3, <2>4, <2>5 DEF flush
<1>5. CASE makeSegmentImmutable \/ Archive \/ UNCHANGED auditVars
  <2>1. UNCHANGED <<kind, buffer, lines, flights, acked, crashed, causes>>
    BY <1>5 DEF makeSegmentImmutable, Archive, medium, auditVars
  <2>2. UNCHANGED StoredEvents /\ UNCHANGED InMemory
    BY <2>1 DEF StoredEvents, Entries, InMemory
  <2> QED
    BY <2>1, <2>2 DEF LossOK, Held
<1>6. CASE \E i \in 1..Len(flights) : HttpArrives(i) \/ HttpAnswered(i) \/ HttpUnanswered(i)
  BY <1>3, <1>6, HttpLoss
<1>7. CASE \E i \in 1..Len(flights), ok, arrives \in BOOLEAN : SyslogSent(i, ok, arrives)
  BY <1>3, <1>7, SyslogLoss
<1>8. CASE Restart
  BY <1>3, <1>8, RestartLoss
<1> QED
  BY <1>1, <1>4, <1>5, <1>6, <1>7, <1>8 DEF AuditNext

\* At the start nothing is acknowledged.
LEMMA LossStart == AuditInit => LossOK
<1>1. 1..Len(<< >>) = {}
  BY EmptySeq
<1> QED
  BY <1>1 DEF AuditInit, LossOK, FlightsOK

\* Without an overwritten file every stored entry can be read.
LEMMA LossInvariant == BaseInv /\ LossOK => LossExcused
<1> SUFFICES ASSUME BaseInv, LossOK, causes \cap LossCauses[kind] = {}
             PROVE  acked \subseteq KeptEvents \cup InMemory \cup crashed
  BY DEF LossExcused
<1>1. PICK m \in Nat : m = nextEvent - 1
  BY DEF BaseInv
<1>2. Base(m)
  BY <1>1 DEF BaseInv
<1>3. kind = "file" => gone = 0
  BY <1>2 DEF Base, SinkOK, LossCauses
<1>4. ASSUME NEW j \in Entries, kind = "file" PROVE \E n \in Directory : starts[n] < j
  <2>1. j \in 1..Len(lines) /\ lines \in Seq(Line(m)) /\ Len(lines) \in Nat
    BY <1>2, LenProperties DEF Entries, Base, Types
  <2>2. lines # << >>
    <3>1. Len(lines) # 0 /\ Len(<< >>) = 0
      BY <2>1, EmptySeq
    <3> QED
      BY <3>1
  <2>3. starts # << >> /\ starts[1] = 0 /\ starts \in Seq(Nat)
    BY <1>2, <2>2 DEF Base, FilesOK
  <2>4. 1 \in Directory
    <3>1. Len(starts) \in Nat \ {0}
      BY <2>3, EmptySeq
    <3> QED
      BY <1>3, <1>4, <3>1 DEF Directory
  <2> QED
    BY <2>1, <2>3, <2>4
<1>5. StoredEvents \subseteq KeptEvents
  BY <1>4 DEF StoredEvents, KeptEvents
<1> QED
  BY <1>5 DEF LossOK, Held

\* However many events, flushes, failures and crashes: an event whose write
\* returned true is stored, buffered or on its way, or a crash or the one kind
\* of fault its sink does not retry has happened.
THEOREM NoLoss == AuditSpec => []LossExcused
<1> DEFINE Inv == BaseInv /\ LossOK
<1>1. Inv /\ [AuditNext]_auditVars => Inv'
  BY BaseStep, LossStep
<1>2. AuditInit => Inv
  BY BaseStart, LossStart
<1>3. Inv => LossExcused
  BY LossInvariant
<1> QED
  BY <1>1, <1>2, <1>3, PTL DEF AuditSpec
-----------------------------------------------------------------------------
(* What verifies has no hole *)

\* The hash of all events up to n commits to n events.
LEMMA UptoType ==
    ASSUME NEW n \in Nat
    PROVE  /\ Upto(n) \in Seq(1..n) /\ Len(Upto(n)) = n
           /\ Append(Upto(n), n + 1) = Upto(n + 1)
<1>1. Upto(n) \in [1..n -> 1..n]
  BY DEF Upto
<1>2. Upto(n) \in Seq(1..n) /\ Len(Upto(n)) = n
  BY <1>1, FunctionSeq
<1>3. n + 1 \in Nat /\ Upto(n + 1) \in [1..(n + 1) -> 1..(n + 1)]
  BY DEF Upto
<1>4. Upto(n + 1) \in Seq(1..(n + 1)) /\ Len(Upto(n + 1)) = n + 1
  BY <1>3, FunctionSeq
<1>5. Upto(n) \in Seq(1..(n + 1)) /\ n + 1 \in 1..(n + 1)
  BY <1>2, <1>3, Wider
<1>6. /\ Append(Upto(n), n + 1) \in Seq(1..(n + 1)) /\ Len(Append(Upto(n), n + 1)) = n + 1
      /\ \A i \in 1..n : Append(Upto(n), n + 1)[i] = Upto(n)[i]
      /\ Append(Upto(n), n + 1)[n + 1] = n + 1
  BY <1>2, <1>5, AppendProperties
<1>7. ASSUME NEW i \in 1..(n + 1) PROVE Append(Upto(n), n + 1)[i] = Upto(n + 1)[i]
  <2>1. Upto(n + 1)[i] = i /\ (i \in 1..n => Upto(n)[i] = i)
    BY DEF Upto
  <2>2. i \in 1..n \/ i = n + 1
    OBVIOUS
  <2> QED
    BY <1>6, <2>1, <2>2
<1>8. Append(Upto(n), n + 1) = Upto(n + 1)
  BY <1>4, <1>6, <1>7, SeqEqual
<1> QED
  BY <1>2, <1>8

\* Event n + 1 is sealed after the hash of the first n.
LEMMA UptoNext ==
    ASSUME NEW n \in Nat
    PROVE  chainHashOf(Upto(n), <<n + 1>>) = Upto(n + 1)
<1>1. Upto(n) \in Seq(1..(n + 1)) /\ n + 1 \in 1..(n + 1)
  BY UptoType, Wider
<1>2. PICK h : h = Upto(n)
  OBVIOUS
<1>3. chainHashOf(h, <<n + 1>>) = Append(h, n + 1)
  BY <1>1, <1>2, ChainingOne
<1> QED
  BY <1>2, <1>3, UptoType

\* What the last restart, if there was none, and the last fault leave of the
\* WORM sink when the entries of buf are flushed.
LEMMA WormFlushHole ==
    ASSUME NEW m \in Nat, NEW buf \in Seq(Entry(m)), buf # << >>, NEW e \in 0..m, Base(m),
           kind = "worm", UNCHANGED <<kind, crashed>>, WormFlush(buf, e), nextEvent' - 1 = m,
           "restart" \notin causes => lastHash' = Upto(m) /\ FromFirst(lines) /\ FromFirst(buf),
           causes \cap {"torn", "refused"} = {} =>
               /\ 1..m \subseteq StoredEvents \cup crashed \cup EventSet(buf)
               /\ \A d \in StoredEvents, b \in EventSet(buf) : d < b
    PROVE  FirstLifeOK' /\ NoGapOK'
<1> DEFINE n == WormSegment
<1>1. /\ lines \in Seq(Line(m)) /\ FilesOK /\ causes \subseteq Causes /\ faults \in 0..MaxFaults
      /\ {} \subseteq {"overwritten"}
  BY DEF Base, Types, Places
<1>2. n \in {Len(starts), Len(starts) + 1} /\ n \in Nat \ {0}
  BY NextSegment
<1>3. FromFirst(<< >>) /\ EventSet(<< >>) = {}
  <2>1. 1..Len(<< >>) = {}
    BY EmptySeq
  <2> QED
    BY <2>1 DEF FromFirst, EventSet
<1>4. CASE WormRefused(e)
  <2>1. buffer' = << >> /\ causes' = causes \cup {"refused"} /\ lines' = lines
    BY <1>4 DEF WormRefused, medium
  <2>2. NoGapOK'
    BY <2>1 DEF NoGapOK
  <2>3. FirstLifeOK'
    BY <1>3, <2>1 DEF FirstLifeOK
  <2> QED
    BY <2>2, <2>3
<1>5. CASE WormAppended(buf, e)
  <2>1. PICK o \in Outcomes(n) : AppendFile(n, buf, o, {}) /\ buffer' = IF o = "ok" THEN << >> ELSE buf
    BY <1>5 DEF WormAppended
  <2> HIDE DEF n
  <2>2. /\ causes' = causes \cup {} \cup ({o} \ {"ok"})
        /\ "torn" \notin causes' =>
               (o = "ok" /\ lines' = lines \o buf) \/ (o = "failed" /\ lines' = lines)
        /\ lines' \in Seq(Line(m))
        /\ \A i \in 1..Len(lines') :
               \/ lines'[i] = Garbage
               \/ i <= Len(lines) /\ lines'[i] = lines[i]
               \/ \E k \in 1..Len(buf) : lines'[i] = buf[k]
    BY <1>1, <1>2, <2>1, Appends
  <2>3. causes \subseteq causes'
    BY <2>2
  <2>4. FirstLifeOK'
    <3> SUFFICES ASSUME "restart" \notin causes'
                 PROVE  lastHash' = Upto(m) /\ FromFirst(lines') /\ FromFirst(buffer')
      BY DEF FirstLifeOK
    <3>1. lastHash' = Upto(m) /\ FromFirst(lines) /\ FromFirst(buf)
      BY <2>3
    <3>2. ASSUME NEW i \in 1..Len(lines'), lines'[i] # Garbage PROVE lines'[i].hash = Upto(lines'[i].ev)
      <4>1. CASE i <= Len(lines) /\ lines'[i] = lines[i]
        <5>1. i \in 1..Len(lines)
          BY <1>1, <2>2, <4>1, LenProperties
        <5> QED
          BY <3>1, <3>2, <4>1, <5>1 DEF FromFirst
      <4>2. CASE \E k \in 1..Len(buf) : lines'[i] = buf[k]
        BY <3>1, <3>2, <4>2 DEF FromFirst
      <4> QED
        BY <2>2, <3>2, <4>1, <4>2
    <3>3. FromFirst(lines')
      BY <3>2 DEF FromFirst
    <3> QED
      BY <1>3, <2>1, <3>1, <3>3
  <2>5. NoGapOK'
    <3> SUFFICES ASSUME causes' \cap {"torn", "refused"} = {}
                 PROVE  /\ 1..m \subseteq StoredEvents' \cup crashed \cup EventSet(buffer')
                        /\ \A d \in StoredEvents', b \in EventSet(buffer') : d < b
      BY DEF NoGapOK
    <3>1. /\ 1..m \subseteq StoredEvents \cup crashed \cup EventSet(buf)
          /\ \A d \in StoredEvents, b \in EventSet(buf) : d < b
      BY <2>3
    <3>2. CASE o = "ok" /\ lines' = lines \o buf
      <4>1. StoredEvents' = StoredEvents \cup EventSet(buf)
        BY <1>1, <3>2, Added
      <4>2. EventSet(buffer') = {}
        BY <1>3, <2>1, <3>2
      <4> QED
        BY <3>1, <4>1, <4>2
    <3>3. CASE o = "failed" /\ lines' = lines
      <4>1. StoredEvents' = StoredEvents /\ buffer' = buf
        BY <2>1, <3>3 DEF StoredEvents, Entries
      <4> QED
        BY <3>1, <4>1
    <3> QED
      BY <2>2, <3>2, <3>3
  <2> QED
    BY <2>4, <2>5
<1> QED
  BY <1>4, <1>5 DEF WormFlush


\* A write of the WORM sink: the event is newer than all that is stored.
LEMMA WormHole ==
    ASSUME NEW m \in Nat \ {0}, m = nextEvent, nextEvent' = m + 1, Base(m), Types(m - 1), FirstLifeOK,
           NoGapOK, UNCHANGED kind, WormWrite(m)
    PROVE  FirstLifeOK' /\ NoGapOK'
<1> DEFINE buf == WormBuf(m)
<1>1. buf = WormBuf(m) /\ m \in 0..m /\ m \in 1..m /\ nextEvent' - 1 = m /\ m - 1 \in Nat /\ (m - 1) + 1 = m
  OBVIOUS
<1>2. kind = "worm" /\ UNCHANGED crashed /\ lastHash' = chainHashOf(lastHash, <<m>>)
  BY DEF WormWrite
<1>3. \/ WormFlush(buf, m)
      \/ buffer' = buf /\ UNCHANGED <<medium, causes>>
  BY DEF WormWrite, WormBuf
<1> HIDE DEF buf
<1>4. /\ buf \in Seq(Entry(m)) /\ buf # << >> /\ EventSet(buf) = EventSet(buffer) \cup {m}
      /\ \A i \in 1..Len(buf) :
             \/ \E j \in 1..Len(buffer) : buf[i] = buffer[j]
             \/ buf[i].ev = m /\ buf[i].hash = chainHashOf(lastHash, <<m>>)
  BY <1>1, WormBuffer
<1>5. chainHashOf(Upto(m - 1), <<m>>) = Upto(m)
  BY <1>1, UptoNext
<1>6. "restart" \notin causes => lastHash' = Upto(m) /\ FromFirst(lines) /\ FromFirst(buf)
  <2> SUFFICES ASSUME "restart" \notin causes PROVE lastHash' = Upto(m) /\ FromFirst(lines) /\ FromFirst(buf)
    OBVIOUS
  <2>1. lastHash = Upto(m - 1) /\ FromFirst(lines) /\ FromFirst(buffer)
    BY <1>2 DEF FirstLifeOK
  <2>2. chainHashOf(lastHash, <<m>>) = Upto(m)
    BY <1>5, <2>1
  <2>3. \A i \in 1..Len(buf) : buf[i] # Garbage => buf[i].hash = Upto(buf[i].ev)
    BY <1>4, <2>1, <2>2 DEF FromFirst
  <2> QED
    BY <1>2, <2>1, <2>2, <2>3 DEF FromFirst
<1>7. StoredEvents \subseteq 1..(m - 1)
  <2>1. lines \in Seq(Line(m - 1)) /\ m - 1 \in Nat
    BY <1>1 DEF Types
  <2>2. ASSUME NEW i \in Entries PROVE lines[i].ev \in 1..(m - 1)
    <3>1. lines[i] \in Line(m - 1) /\ lines[i] # Garbage
      BY <2>1, ElementOfSeq DEF Entries
    <3> QED
      BY <2>1, <3>1, LineCases
  <2> QED
    BY <2>2 DEF StoredEvents
<1>8. causes \cap {"torn", "refused"} = {} =>
          /\ 1..m \subseteq StoredEvents \cup crashed \cup EventSet(buf)
          /\ \A d \in StoredEvents, b \in EventSet(buf) : d < b
  <2> SUFFICES ASSUME causes \cap {"torn", "refused"} = {}
               PROVE  /\ 1..m \subseteq StoredEvents \cup crashed \cup EventSet(buf)
                      /\ \A d \in StoredEvents, b \in EventSet(buf) : d < b
    OBVIOUS
  <2>1. /\ 1..(m - 1) \subseteq StoredEvents \cup crashed \cup EventSet(buffer)
        /\ \A d \in StoredEvents, b \in EventSet(buffer) : d < b
    BY <1>2 DEF NoGapOK
  <2>2. 1..m = 1..(m - 1) \cup {m} /\ \A d \in 1..(m - 1) : d < m
    OBVIOUS
  <2>3. 1..m \subseteq StoredEvents \cup crashed \cup EventSet(buf)
    BY <1>4, <2>1, <2>2
  <2> QED
    BY <1>4, <1>7, <2>1, <2>2, <2>3
<1>9. CASE WormFlush(buf, m)
  BY <1>1, <1>2, <1>4, <1>6, <1>8, <1>9, WormFlushHole
<1>10. CASE buffer' = buf /\ UNCHANGED <<medium, causes>>
  <2>1. lines' = lines /\ StoredEvents' = StoredEvents
    BY <1>10 DEF StoredEvents, Entries, medium
  <2>2. FirstLifeOK'
    BY <1>1, <1>6, <1>10, <2>1 DEF FirstLifeOK
  <2>3. NoGapOK'
    BY <1>1, <1>2, <1>8, <1>10, <2>1 DEF NoGapOK
  <2> QED
    BY <2>2, <2>3
<1> QED
  BY <1>3, <1>9, <1>10

\* An event log whose appends all went through has every event in its place.
LEMMA EventLogHole ==
    ASSUME NEW m \in Nat \ {0}, m = nextEvent, nextEvent' = m + 1, Base(m), LogOK, UNCHANGED kind,
           EventLogAppend(m)
    PROVE  LogOK'
<1> DEFINE ls == Sealed(lastHash, <<m>>)
           n == 1
<1>1. /\ lines \in Seq(Line(m)) /\ FilesOK /\ causes \subseteq Causes /\ faults \in 0..MaxFaults
      /\ {} \subseteq {"overwritten"} /\ lastHash \in Seq(1..m) /\ m \in 1..m
      /\ kind = "eventlog"
  BY DEF Base, Types, Places, EventLogAppend
<1>2. ls \in Seq(Entry(m)) /\ Len(ls) = 1 /\ ls # << >> /\ ls[1].ev = m
  BY <1>1, OneEntry
<1>3. PICK o \in Outcomes(n) : AppendFile(n, ls, o, {})
  BY DEF EventLogAppend
<1>4. n \in {Len(starts), Len(starts) + 1} /\ n \in Nat \ {0}
  BY <1>1 DEF Base, Places, SinkOK
<1> HIDE DEF ls, n
<1> SUFFICES ASSUME "failed" \notin causes', Entries' = 1..Len(lines')
             PROVE  Len(lines') = m /\ \A i \in 1..Len(lines') : lines'[i].ev = i
  BY DEF LogOK
<1>5. /\ causes' = causes \cup {} \cup ({o} \ {"ok"})
      /\ (o # "failed" /\ lines' = lines \o ls) \/ (o = "failed" /\ lines' = lines)
  <2>1. causes' = causes \cup {} \cup ({o} \ {"ok"})
    BY <1>3 DEF AppendFile
  <2>2. Entries' = 1..Len(lines') /\ Len(ls) = 1 =>
            (o # "failed" /\ lines' = lines \o ls) \/ (o = "failed" /\ lines' = lines)
    BY <1>1, <1>2, <1>3, <1>4, Appends
  <2> QED
    BY <1>2, <2>1, <2>2
<1>6. lines' = lines \o ls /\ "failed" \notin causes
  BY <1>5
<1>7. /\ Len(lines) \in Nat /\ Len(lines') = Len(lines) + 1
      /\ \A i \in 1..Len(lines) : lines'[i] = lines[i]
      /\ lines'[Len(lines) + 1] = ls[1]
  <2>1. ls \in Seq(Line(m)) /\ Len(lines) \in Nat
    BY <1>1, <1>2, SeqMonotonic, LenProperties DEF Line
  <2>2. /\ Len(lines \o ls) = Len(lines) + Len(ls)
        /\ \A i \in 1..(Len(lines) + Len(ls)) :
               (lines \o ls)[i] = IF i <= Len(lines) THEN lines[i] ELSE ls[i - Len(lines)]
    BY <1>1, <2>1, ConcatProperties
  <2>3. Len(lines) + 1 \in 1..(Len(lines) + Len(ls)) /\ (Len(lines) + 1) - Len(lines) = 1
    BY <1>2, <2>1
  <2> QED
    BY <1>2, <1>6, <2>1, <2>2, <2>3
<1>8. Entries = 1..Len(lines)
  BY <1>7 DEF Entries
<1>9. Len(lines) = m - 1 /\ \A i \in 1..Len(lines) : lines[i].ev = i
  BY <1>1, <1>6, <1>8 DEF LogOK
<1>10. ASSUME NEW i \in 1..Len(lines') PROVE lines'[i].ev = i
  <2>1. i \in 1..Len(lines) \/ i = Len(lines) + 1
    BY <1>7
  <2>2. CASE i \in 1..Len(lines)
    BY <1>7, <1>9, <2>2
  <2>3. CASE i = Len(lines) + 1
    BY <1>2, <1>7, <1>9, <2>3
  <2> QED
    BY <2>1, <2>2, <2>3
<1> QED
  BY <1>7, <1>9, <1>10

\* Before a restart the WORM sink's hashes commit to every event; without a
\* torn or refused append the events that are not buffered are stored, or a
\* crash has taken them.
LEMMA HoleStep == BaseInv /\ HoleOK /\ [AuditNext]_auditVars => HoleOK'
<1> SUFFICES ASSUME BaseInv, HoleOK, [AuditNext]_auditVars PROVE HoleOK'
  OBVIOUS
<1>1. PICK m \in Nat : m = nextEvent - 1
  BY DEF BaseInv
<1>2. Base(m) /\ LogOK /\ FirstLifeOK /\ NoGapOK
  BY <1>1 DEF BaseInv, HoleOK
<1>3. CASE record
  <2>1. PICK k \in Nat \ {0} : k = nextEvent /\ Base(k) /\ nextEvent' = k + 1 /\ UNCHANGED kind
    BY <1>3, RecordBase DEF record
  <2>2. Types(k - 1)
    BY <1>1, <1>2, <2>1 DEF Base
  <2>3. CASE kind = "eventlog"
    <3>1. EventLogAppend(k)
      BY <1>3, <2>1, <2>3 DEF record, MemoryWrite, FileWrite, WormWrite, HttpWrite, SyslogWrite
    <3>2. LogOK'
      BY <1>2, <2>1, <3>1, EventLogHole
    <3> QED
      BY <2>1, <2>3, <3>2 DEF HoleOK, FirstLifeOK, NoGapOK
  <2>4. CASE kind = "worm"
    <3>1. WormWrite(k)
      BY <1>3, <2>1, <2>4 DEF record, MemoryWrite, FileWrite, EventLogAppend, HttpWrite, SyslogWrite
    <3>2. FirstLifeOK' /\ NoGapOK'
      BY <1>2, <2>1, <2>2, <3>1, WormHole
    <3> QED
      BY <2>1, <2>4, <3>2 DEF HoleOK, LogOK
  <2> QED
    BY <2>1, <2>3, <2>4 DEF HoleOK, LogOK, FirstLifeOK, NoGapOK
<1>4. CASE flush
  <2>1. /\ buffer \in Seq(Entry(m)) /\ buffer # << >> /\ 0 \in 0..m
        /\ UNCHANGED <<kind, crashed, nextEvent>>
    BY <1>2, <1>4 DEF flush, Base, Types
  <2>2. kind # "eventlog"
    BY <1>2, <2>1 DEF Base, SinkOK
  <2>3. CASE kind = "worm"
    <3>1. WormFlush(buffer, 0) /\ UNCHANGED lastHash
      BY <1>4, <2>3 DEF flush, Networks
    <3>2. "restart" \notin causes => lastHash' = Upto(m) /\ FromFirst(lines) /\ FromFirst(buffer)
      BY <1>1, <1>2, <2>3, <3>1 DEF FirstLifeOK
    <3>3. causes \cap {"torn", "refused"} = {} =>
              /\ 1..m \subseteq StoredEvents \cup crashed \cup EventSet(buffer)
              /\ \A d \in StoredEvents, b \in EventSet(buffer) : d < b
      BY <1>1, <1>2, <2>3 DEF NoGapOK
    <3>4. FirstLifeOK' /\ NoGapOK'
      BY <1>1, <1>2, <2>1, <2>3, <3>1, <3>2, <3>3, WormFlushHole
    <3> QED
      BY <2>1, <2>3, <3>4 DEF HoleOK, LogOK
  <2> QED
    BY <2>1, <2>2, <2>3 DEF HoleOK, LogOK, FirstLifeOK, NoGapOK
<1>5. CASE makeSegmentImmutable \/ Archive \/ UNCHANGED auditVars
  <2>1. UNCHANGED <<kind, nextEvent, lastHash, buffer, lines, crashed, causes>>
    BY <1>5 DEF makeSegmentImmutable, Archive, medium, auditVars
  <2>2. UNCHANGED StoredEvents /\ UNCHANGED Entries
    BY <2>1 DEF StoredEvents, Entries
  <2> QED
    BY <1>2, <2>1, <2>2 DEF HoleOK, LogOK, FirstLifeOK, NoGapOK
<1>6. CASE \/ \E i \in 1..Len(flights) : HttpArrives(i) \/ HttpAnswered(i) \/ HttpUnanswered(i)
           \/ \E i \in 1..Len(flights), ok, arrives \in BOOLEAN : SyslogSent(i, ok, arrives)
  <2>1. kind' = kind /\ kind \in {"http", "syslog"}
    BY <1>6 DEF HttpArrives, HttpAnswered, HttpUnanswered, SyslogSent
  <2> QED
    BY <2>1 DEF HoleOK, LogOK, FirstLifeOK, NoGapOK
<1>7. CASE Restart
  <2>1. /\ UNCHANGED <<kind, nextEvent>> /\ causes \cup {"restart"} \subseteq causes'
        /\ buffer' = << >> /\ crashed' = crashed \cup InMemory
    BY <1>7 DEF Restart
  <2>2. kind # "memory" => lines' = lines /\ UNCHANGED Entries /\ UNCHANGED StoredEvents
    BY <1>7 DEF Restart, medium, Entries, StoredEvents
  <2>3. LogOK' /\ FirstLifeOK'
    BY <1>2, <2>1, <2>2 DEF LogOK, FirstLifeOK
  <2>4. EventSet(buffer) \subseteq InMemory /\ EventSet(<< >>) = {}
    BY Memory, EmptySeq DEF EventSet
  <2>5. NoGapOK'
    BY <1>2, <2>1, <2>2, <2>4 DEF NoGapOK
  <2> QED
    BY <2>3, <2>5 DEF HoleOK
<1> QED
  BY <1>3, <1>4, <1>5, <1>6, <1>7 DEF AuditNext


\* At the start no event is recorded.
LEMMA HoleStart == AuditInit => HoleOK
<1> SUFFICES ASSUME AuditInit PROVE HoleOK
  OBVIOUS
<1>1. /\ nextEvent - 1 = 0 /\ lines = << >> /\ buffer = << >> /\ lastHash = << >>
      /\ Len(<< >>) = 0 /\ 1..0 = {}
  BY EmptySeq DEF AuditInit, initialHash
<1>2. Upto(0) = << >>
  BY UptoType, EmptySeq
<1>3. StoredEvents = {} /\ EventSet(buffer) = {} /\ FromFirst(<< >>)
  BY <1>1 DEF StoredEvents, Entries, EventSet, FromFirst
<1> QED
  BY <1>1, <1>2, <1>3 DEF HoleOK, LogOK, FirstLifeOK, NoGapOK

\* Before a restart the entry that is stored first after a missing event is
\* sealed from a hash that commits to it, which no stored entry has.
LEMMA LinkedHasNoHole ==
    ASSUME NEW m \in Nat, lines \in Seq(Line(m)), FromFirst(lines), Linked,
           NEW e \in 1..m, e \notin StoredEvents
    PROVE  \A d \in StoredEvents : d < e
<1> DEFINE later == {d \in StoredEvents : d > e}
<1>1. Len(lines) \in Nat
  BY LenProperties
<1>2. ASSUME NEW i \in Entries
      PROVE  /\ i \in 1..Len(lines) /\ lines[i] # Garbage /\ lines[i].ev \in 1..m /\ lines[i].ev \in StoredEvents
             /\ lines[i].hash \in Seq(1..m) /\ Len(lines[i].hash) = lines[i].ev
  <2>1. i \in 1..Len(lines) /\ lines[i] # Garbage /\ lines[i] \in Line(m)
    BY ElementOfSeq DEF Entries
  <2>2. lines[i].ev \in 1..m /\ lines[i].hash \in Seq(1..m)
    BY <2>1, LineCases
  <2>3. lines[i].hash = Upto(lines[i].ev)
    BY <2>1 DEF FromFirst
  <2>4. lines[i].ev \in Nat
    BY <2>2
  <2>5. Len(Upto(lines[i].ev)) = lines[i].ev
    BY <2>4, UptoType
  <2> QED
    BY <2>1, <2>2, <2>3, <2>5 DEF StoredEvents
<1>3. \A d \in StoredEvents : d \in 1..m /\ d # e
  BY <1>2 DEF StoredEvents
<1>4. later = {}
  <2> SUFFICES ASSUME later # {} PROVE FALSE
    OBVIOUS
  <2>1. later \subseteq Nat
    BY <1>3
  <2>2. PICK d \in later : \A x \in later : d <= x
    <3> HIDE DEF later
    <3> QED
      BY <2>1, Smallest
  <2>3. PICK j \in Entries : lines[j].ev = d
    BY <2>2 DEF StoredEvents
  <2>4. d \in 1..m /\ d > e /\ Len(lines[j].hash) = d
    BY <1>2, <1>3, <2>2, <2>3
  <2>5. CASE lines[j].hash = chainHashOf(initialHash, <<lines[j].ev>>)
    <3>1. initialHash \in Seq(1..m) /\ Len(initialHash) = 0 /\ <<d>> \in Seq(1..m) /\ Len(<<d>>) = 1
      BY <2>4, EmptySeq DEF initialHash
    <3>2. Len(chainHashOf(initialHash, <<d>>)) = 0 + 1
      <4> DEFINE one == <<d>>
      <4>1. one \in Seq(1..m) /\ Len(one) = 1
        BY <3>1
      <4> HIDE DEF one
      <4>2. Len(chainHashOf(initialHash, one)) = Len(initialHash) + Len(one)
        BY <3>1, <4>1, Chaining
      <4> QED
        BY <3>1, <4>1, <4>2 DEF one
    <3>3. Len(lines[j].hash) = 0 + 1
      BY <2>3, <2>5, <3>2
    <3>4. d = 1
      BY <2>4, <3>3
    <3> QED
      BY <2>4, <3>4
  <2>6. CASE \E i \in 1..(j - 1) :
                lines[i] # Garbage /\ lines[j].hash = chainHashOf(lines[i].hash, <<lines[j].ev>>)
    <3>1. PICK i \in 1..(j - 1) :
              lines[i] # Garbage /\ lines[j].hash = chainHashOf(lines[i].hash, <<d>>)
      BY <2>3, <2>6
    <3>2. i \in Entries
      BY <1>1, <1>2, <2>3, <3>1 DEF Entries
    <3>3. PICK c \in 1..m : c = lines[i].ev /\ c \in StoredEvents
      BY <1>2, <3>2
    <3>4. PICK h \in Seq(1..m) : h = lines[i].hash /\ Len(h) = c
      BY <1>2, <3>2, <3>3
    <3>5. Len(chainHashOf(h, <<d>>)) = c + 1
      <4> DEFINE one == <<d>>
      <4>1. one \in Seq(1..m) /\ Len(one) = 1
        BY <2>4
      <4> HIDE DEF one
      <4>2. Len(chainHashOf(h, one)) = Len(h) + Len(one)
        BY <4>1, Chaining
      <4> QED
        BY <3>4, <4>1, <4>2 DEF one
    <3>6. d = c + 1
      BY <2>4, <3>1, <3>4, <3>5
    <3>7. c # e
      BY <3>3
    <3>8. c > e
      BY <2>4, <3>6, <3>7
    <3>9. c \in later
      BY <3>3, <3>8
    <3> QED
      BY <2>2, <2>4, <3>6, <3>9
  <2> QED
    BY <2>3, <2>5, <2>6 DEF Linked
<1> QED
  BY <1>3, <1>4

\* The invariant leaves no hole in a log that verifies.
LEMMA HoleInvariant == BaseInv /\ HoleOK => VerifiedMeansNoHole
<1> SUFFICES ASSUME BaseInv, HoleOK, kind \in Durable, verify, NEW e \in 1..(nextEvent - 1)
             PROVE  \/ e \in StoredEvents \cup crashed
                    \/ \A d \in StoredEvents : d < e
                    \/ kind = "eventlog" /\ "failed" \in causes
                    \/ kind = "worm" /\ "restart" \in causes /\ causes \cap {"torn", "refused"} # {}
  BY DEF VerifiedMeansNoHole
<1>1. PICK m \in Nat : m = nextEvent - 1
  BY DEF BaseInv
<1>2. lines \in Seq(Line(m))
  BY <1>1 DEF BaseInv, Base, Types
<1>3. CASE kind = "eventlog" /\ "failed" \notin causes
  <2>1. Entries = 1..Len(lines) /\ Len(lines) = nextEvent - 1 /\ \A i \in 1..Len(lines) : lines[i].ev = i
    BY <1>3 DEF verify, HoleOK, LogOK
  <2>2. e \in Entries /\ lines[e].ev = e
    BY <2>1
  <2> QED
    BY <2>2 DEF StoredEvents
<1>4. CASE kind = "worm" /\ causes \cap {"torn", "refused"} = {}
  BY <1>4 DEF HoleOK, NoGapOK
<1>5. CASE kind = "worm" /\ "restart" \notin causes
  <2>1. FromFirst(lines) /\ Linked
    BY <1>5 DEF verify, HoleOK, FirstLifeOK
  <2> QED
    BY <1>1, <1>2, <2>1, LinkedHasNoHole
<1> QED
  BY <1>3, <1>4, <1>5 DEF Durable

\* However many events, files, faults and restarts: when verification accepts
\* the WORM segments or the event log, no event is missing between two stored
\* ones but for the causes named.
THEOREM NoHole == AuditSpec => []VerifiedMeansNoHole
<1> DEFINE Inv == BaseInv /\ HoleOK
<1>1. Inv /\ [AuditNext]_auditVars => Inv'
  BY BaseStep, HoleStep
<1>2. AuditInit => Inv
  BY BaseStart, HoleStart
<1>3. Inv => VerifiedMeansNoHole
  BY HoleInvariant
<1> QED
  BY <1>1, <1>2, <1>3, PTL DEF AuditSpec
-----------------------------------------------------------------------------
(* The WORM sink and the event log implement a tamper-evident log *)

Intact == kind \in Durable /\ causes \cap {"torn", "refused", "blank", "unread"} = {}

\* The log seals as the sinks do.
LEMMA SameChain ==
    ASSUME NEW h, NEW es, NEW t
    PROVE  Log!Chain(h, es) = Sealed(h, es) /\ Log!HashOf(t) = HashOf(t)
<1>1. Log!Chain(h, es) = Sealed(h, es)
  BY DEF Log!Chain, Sealed, chainHashOf
<1>2. Log!HashOf(t) = HashOf(t)
  BY DEF Log!HashOf, HashOf, initialHash
<1> QED
  BY <1>1, <1>2

\* What has gone wrong stays on record.
LEMMA CausesGrow ==
    ASSUME [AuditNext]_auditVars
    PROVE  kind' = kind /\ causes \subseteq causes'
<1>1. CASE record
  BY <1>1 DEF record, MemoryWrite, EventLogAppend, FileWrite, FileFlush, WormWrite, WormFlush,
              WormRefused, WormAppended, HttpWrite, SyslogWrite, AppendFile
<1>2. CASE flush
  BY <1>2 DEF flush, FileFlush, WormFlush, WormRefused, WormAppended, AppendFile
<1>3. CASE makeSegmentImmutable \/ Archive \/ UNCHANGED auditVars
  BY <1>3 DEF makeSegmentImmutable, Archive, auditVars
<1>4. CASE \/ \E i \in 1..Len(flights) : HttpArrives(i) \/ HttpAnswered(i) \/ HttpUnanswered(i)
           \/ \E i \in 1..Len(flights), ok, arrives \in BOOLEAN : SyslogSent(i, ok, arrives)
  BY <1>4 DEF HttpArrives, HttpAnswered, HttpUnanswered, SyslogSent
<1>5. CASE Restart
  BY <1>5 DEF Restart
<1> QED
  BY <1>1, <1>2, <1>3, <1>4, <1>5 DEF AuditNext

\* An undamaged log: its lines are chained, its buffer is what they go on with.
LEMMA IntactState ==
    ASSUME NEW m \in Nat, Base(m), ChainOK, Intact
    PROVE  /\ lines \in Seq(Entry(m)) /\ HashOf(lines) \in Seq(1..m)
           /\ kind = "eventlog" => /\ lastHash = HashOf(lines) /\ EventsOf(buffer) = << >>
           /\ kind = "worm" => /\ buffer = Sealed(HashOf(lines), EventsOf(buffer))
                               /\ lastHash = chainHashOf(HashOf(lines), EventsOf(buffer))
<1>1. kind \in Durable /\ causes \cap BreakCauses[kind] = {} /\ kind \notin Networks
  BY DEF Intact, Durable, Networks, BreakCauses
<1>2. lines \in Seq(Entry(m)) /\ HashOf(lines) \in Seq(1..m)
  BY <1>1, Unbroken
<1>3. kind = "eventlog" => buffer = << >>
  BY DEF Base, SinkOK
<1>4. EventsOf(<< >>) = << >>
  BY <1>2, NothingSealed
<1> QED
  BY <1>1, <1>2, <1>3, <1>4 DEF ChainOK

\* An append to the event log stores the event, or loses it.
LEMMA EventLogImplements ==
    ASSUME NEW m \in Nat \ {0}, m = nextEvent, nextEvent' = m + 1, Base(m), ChainOK, UNCHANGED kind,
           Intact, Intact', EventLogAppend(m)
    PROVE  Log!Next
<1> DEFINE ls == Sealed(lastHash, <<m>>)
           n == 1
<1>1. /\ lines \in Seq(Line(m)) /\ FilesOK /\ causes \subseteq Causes /\ faults \in 0..MaxFaults
      /\ {} \subseteq {"overwritten"} /\ lastHash \in Seq(1..m) /\ m \in 1..m
      /\ kind = "eventlog" /\ buffer' = buffer
  BY DEF Base, Types, Places, EventLogAppend
<1>2. ls \in Seq(Entry(m)) /\ ls # << >>
  BY <1>1, OneEntry
<1>3. PICK o \in Outcomes(n) : AppendFile(n, ls, o, {})
  BY DEF EventLogAppend
<1>4. n \in {Len(starts), Len(starts) + 1} /\ n \in Nat \ {0}
  BY <1>1 DEF Base, Places, SinkOK
<1>5. lastHash = HashOf(lines) /\ EventsOf(buffer) = << >> /\ EventsOf(buffer)' = << >>
  BY <1>1, IntactState
<1>6. lines' = lines \o ls \/ lines' = lines
  <2> HIDE DEF ls, n
  <2>1. "torn" \notin causes'
    BY DEF Intact
  <2> QED
    BY <1>1, <1>2, <1>3, <1>4, <2>1, Appends
<1>7. nextEvent' - 1 = (nextEvent - 1) + 1 /\ nextEvent' - 1 = m
  OBVIOUS
<1>8. Append(<< >>, m) = <<m>>
  OBVIOUS
<1>9. CASE lines' = lines \o ls
  <2>1. lines' = lines \o Log!Chain(Log!HashOf(lines), Append(EventsOf(buffer), nextEvent' - 1))
    BY <1>5, <1>7, <1>8, <1>9, SameChain
  <2> QED
    BY <1>5, <1>7, <2>1 DEF Log!Next, Log!AcceptAndStore, Intact
<1>10. CASE lines' = lines
  BY <1>5, <1>7, <1>10 DEF Log!Next, Log!Lose, Intact
<1> QED
  BY <1>6, <1>9, <1>10


\* A flush of the WORM sink that is not refused stores all it has, or nothing.
LEMMA WormFlushed ==
    ASSUME NEW m \in Nat, NEW buf \in Seq(Entry(m)), buf # << >>, NEW e, Base(m), Intact',
           WormFlush(buf, e)
    PROVE  \/ lines' = lines \o buf /\ buffer' = << >>
           \/ lines' = lines /\ buffer' = buf
<1> DEFINE n == WormSegment
<1>1. /\ lines \in Seq(Line(m)) /\ FilesOK /\ causes \subseteq Causes /\ faults \in 0..MaxFaults
      /\ {} \subseteq {"overwritten"}
  BY DEF Base, Types, Places
<1>2. n \in {Len(starts), Len(starts) + 1} /\ n \in Nat \ {0}
  BY NextSegment
<1>3. ~WormRefused(e) /\ "torn" \notin causes'
  BY DEF WormRefused, Intact
<1>4. PICK o \in Outcomes(n) : AppendFile(n, buf, o, {}) /\ buffer' = IF o = "ok" THEN << >> ELSE buf
  BY <1>3 DEF WormFlush, WormAppended
<1> HIDE DEF n
<1>5. (o = "ok" /\ lines' = lines \o buf) \/ (o = "failed" /\ lines' = lines)
  BY <1>1, <1>2, <1>3, <1>4, Appends
<1> QED
  BY <1>4, <1>5

\* A write of the WORM sink accepts the event, and stores it with what was
\* pending when the flush it starts goes through.
LEMMA WormImplements ==
    ASSUME NEW m \in Nat \ {0}, m = nextEvent, nextEvent' = m + 1, Base(m), ChainOK, UNCHANGED kind,
           Intact, Intact', WormWrite(m)
    PROVE  Log!Next
<1> DEFINE buf == WormBuf(m)
<1>1. buf = WormBuf(m) /\ m \in 1..m /\ nextEvent' - 1 = (nextEvent - 1) + 1 /\ nextEvent' - 1 = m
  OBVIOUS
<1>2. kind = "worm"
  BY DEF WormWrite
<1>3. \/ WormFlush(buf, m)
      \/ buffer' = buf /\ UNCHANGED medium
  BY DEF WormWrite, WormBuf
<1> HIDE DEF buf
<1>4. /\ HashOf(lines) \in Seq(1..m) /\ buffer = Sealed(HashOf(lines), EventsOf(buffer))
      /\ lastHash = chainHashOf(HashOf(lines), EventsOf(buffer))
  BY <1>2, IntactState
<1>5. /\ buf \in Seq(Entry(m)) /\ buf # << >>
      /\ \A h \in Seq(1..m) :
             buffer = Sealed(h, EventsOf(buffer)) /\ lastHash = chainHashOf(h, EventsOf(buffer)) =>
                 /\ EventsOf(buf) = Append(EventsOf(buffer), m)
                 /\ buf = Sealed(h, EventsOf(buf))
                 /\ chainHashOf(lastHash, <<m>>) = chainHashOf(h, EventsOf(buf))
  BY <1>1, WormBuffer
<1>6. EventsOf(buf) = Append(EventsOf(buffer), m) /\ buf = Sealed(HashOf(lines), EventsOf(buf))
  BY <1>4, <1>5
<1>7. \/ lines' = lines \o buf /\ buffer' = << >>
      \/ lines' = lines /\ buffer' = buf
  BY <1>3, <1>5, WormFlushed DEF medium
<1>8. CASE lines' = lines \o buf /\ buffer' = << >>
  <2>1. EventsOf(buffer)' = << >>
    BY <1>4, <1>8, NothingSealed
  <2>2. lines' = lines \o Log!Chain(Log!HashOf(lines), Append(EventsOf(buffer), nextEvent' - 1))
    BY <1>1, <1>6, <1>8, SameChain
  <2> QED
    BY <1>1, <2>1, <2>2 DEF Log!Next, Log!AcceptAndStore, Intact
<1>9. CASE lines' = lines /\ buffer' = buf
  <2>1. EventsOf(buffer)' = Append(EventsOf(buffer), nextEvent' - 1)
    BY <1>1, <1>6, <1>9
  <2> QED
    BY <1>1, <1>9, <2>1 DEF Log!Next, Log!Accept, Intact
<1> QED
  BY <1>7, <1>8, <1>9

\* Every step is one of the log, or leaves it alone.
LEMMA LogStep == BaseInv /\ ChainOK /\ [AuditNext]_auditVars => [Log!Next]_Log!vars
<1> SUFFICES ASSUME BaseInv, ChainOK, [AuditNext]_auditVars PROVE [Log!Next]_Log!vars
  OBVIOUS
<1>1. kind' = kind /\ causes \subseteq causes'
  BY CausesGrow
<1>2. CASE ~Intact'
  BY <1>2 DEF Log!Next, Log!Damage, Intact
<1> SUFFICES ASSUME Intact' PROVE [Log!Next]_Log!vars
  BY <1>2
<1>3. Intact /\ kind \in {"worm", "eventlog"}
  BY <1>1 DEF Intact, Durable
<1>4. PICK m \in Nat : m = nextEvent - 1
  BY DEF BaseInv
<1>5. Base(m)
  BY <1>4 DEF BaseInv
<1>6. CASE record
  <2>1. PICK k \in Nat \ {0} : k = nextEvent /\ Base(k) /\ nextEvent' = k + 1 /\ UNCHANGED kind
    BY <1>6, RecordBase DEF record
  <2>2. EventLogAppend(k) \/ WormWrite(k)
    BY <1>3, <1>6, <2>1 DEF record, MemoryWrite, FileWrite, HttpWrite, SyslogWrite
  <2> QED
    BY <1>3, <2>1, <2>2, EventLogImplements, WormImplements
<1>7. CASE flush
  <2>1. buffer \in Seq(Entry(m)) /\ buffer # << >> /\ UNCHANGED nextEvent
    BY <1>5, <1>7 DEF flush, Base, Types
  <2>2. kind = "worm" /\ WormFlush(buffer, 0)
    BY <1>3, <1>5, <1>7, <2>1 DEF flush, Networks
  <2>3. HashOf(lines) \in Seq(1..m) /\ buffer = Sealed(HashOf(lines), EventsOf(buffer))
    BY <1>3, <1>5, <2>2, IntactState
  <2>4. CASE lines' = lines \o buffer /\ buffer' = << >>
    <3>1. EventsOf(buffer)' = << >>
      BY <2>3, <2>4, NothingSealed
    <3>2. lines' = lines \o Log!Chain(Log!HashOf(lines), EventsOf(buffer))
      BY <2>3, <2>4, SameChain
    <3> QED
      BY <1>3, <2>1, <3>1, <3>2 DEF Log!Next, Log!Store, Intact
  <2>5. CASE lines' = lines /\ buffer' = buffer
    BY <1>3, <2>1, <2>5 DEF Log!vars, Intact, EventsOf
  <2> QED
    BY <1>5, <2>1, <2>2, <2>4, <2>5, WormFlushed
<1>8. CASE makeSegmentImmutable \/ Archive \/ UNCHANGED auditVars
  <2>1. UNCHANGED <<kind, nextEvent, buffer, lines, causes>>
    BY <1>8 DEF makeSegmentImmutable, Archive, medium, auditVars
  <2> QED
    BY <2>1 DEF Log!vars, EventsOf
<1>9. CASE \/ \E i \in 1..Len(flights) : HttpArrives(i) \/ HttpAnswered(i) \/ HttpUnanswered(i)
           \/ \E i \in 1..Len(flights), ok, arrives \in BOOLEAN : SyslogSent(i, ok, arrives)
  BY <1>3, <1>9 DEF HttpArrives, HttpAnswered, HttpUnanswered, SyslogSent
<1>10. CASE Restart
  <2>1. nextEvent' = nextEvent /\ lines' = lines /\ buffer' = << >>
    BY <1>3, <1>10 DEF Restart, medium
  <2>2. EventsOf(buffer)' = << >>
    <3>1. HashOf(lines) \in Seq(1..m)
      BY <1>3, <1>5, IntactState
    <3> QED
      BY <2>1, <3>1, NothingSealed
  <2> QED
    BY <1>3, <2>1, <2>2 DEF Log!Next, Log!Lose, Intact
<1> QED
  BY <1>6, <1>7, <1>8, <1>9, <1>10 DEF AuditNext

\* The log starts empty.
LEMMA LogStart == AuditInit => Log!Init
<1> SUFFICES ASSUME AuditInit PROVE Log!Init
  OBVIOUS
<1>1. nextEvent - 1 = 0 /\ lines = << >> /\ buffer = << >> /\ << >> \in Seq(1..0)
  BY EmptySeq DEF AuditInit
<1>2. EventsOf(buffer) = << >>
  BY <1>1, NothingSealed
<1> QED
  BY <1>1, <1>2 DEF Log!Init

\* However large the files and the faults: until an append is torn, a segment
\* refused or a restart finds no hash, the WORM sink and the event log are a
\* tamper-evident log, every step one of its steps or none.
THEOREM ImplementsLog == AuditSpec => RefinesTamperEvidentLog
<1> DEFINE Inv == BaseInv /\ ChainOK /\ SealOK
<1>1. Inv /\ [AuditNext]_auditVars => Inv'
  BY BaseStep, ChainStep
<1>2. AuditInit => Inv /\ Log!Init
  BY BaseStart, ChainStart, LogStart
<1>3. Inv /\ [AuditNext]_auditVars => [Log!Next]_Log!vars
  BY LogStep
<1> QED
  BY <1>1, <1>2, <1>3, PTL DEF AuditSpec, RefinesTamperEvidentLog, Log!Spec
=============================================================================
