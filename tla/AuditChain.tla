----------------------------- MODULE AuditChain -----------------------------
(***************************************************************************)
(* AuditLogger over each of its sinks (memory, file, http, syslog, WORM)   *)
(* and the orchestrator's EventLogger: what is buffered, how it is chained *)
(* by hash, what reaches the medium, and what a failed or torn append, a   *)
(* refused segment, a lost answer, a crash and a restart make of it.       *)
(* Events are numbered in the order they are recorded.  A hash is the      *)
(* sequence of events it commits to.  A file is appended to only while it  *)
(* is the newest, so the lines of all files are one sequence, and a file   *)
(* is where it begins; the last line may lack its newline.                 *)
(***************************************************************************)
EXTENDS Integers, Sequences, FiniteSets, Functions

CONSTANTS
    FlushSize,    \* flushInterval of the sinks (50 or 100)
    SegmentCap,   \* maxSegmentBytes, maxFileSizeBytes: lines a file may have
                  \* when the next flush still appends to it
    MaxSegments,  \* maxSegments of the WORM sink, 0 for no limit
    MaxRotated,   \* maxRotatedFiles of the file sink
    MaxEvents,    \* bound: events recorded
    MaxFaults,    \* bound: failures of the medium, crashes
    MaxFlights    \* bound: flushes that wait for the network at once

ASSUME AuditAssumption ==
    /\ FlushSize \in Nat \ {0}
    /\ SegmentCap \in Nat \ {0}
    /\ MaxSegments \in Nat
    /\ MaxRotated \in Nat \ {0}
    /\ MaxEvents \in Nat /\ MaxFaults \in Nat /\ MaxFlights \in Nat

VARIABLES
    kind,      \* which sink the process was configured with
    nextEvent, \* number of the next event
    buffer,    \* entries not flushed yet, sealed in the WORM sink only
    lastHash,  \* lastHash, prevHash
    lines,     \* the lines of all files: segments, rotated and current file,
               \* or the one medium
    starts,    \* of each file, how many lines are before it
    eol,       \* the newest file is empty or ends with a newline
    gone,      \* how many of the first files are no longer in the directory:
               \* archived (WORM) or overwritten by a rotation (file)
    segment,   \* the file appended to: the newest, or one beyond
    frozen,    \* segments made immutable
    flights,   \* flushes that wait for the network
    acked,     \* history: events whose write returned true
    crashed,   \* history: events that only memory held at a crash
    causes,    \* history: what has gone wrong
    faults     \* how many times

medium    == <<lines, starts, eol>>
auditVars == <<kind, nextEvent, buffer, lastHash, lines, starts, eol, gone, segment,
               frozen, flights, acked, crashed, causes, faults>>

Kinds    == {"memory", "file", "http", "syslog", "worm", "eventlog"}
Networks == {"http", "syslog"}
Durable  == {"worm", "eventlog"}
Causes   == {"failed", "torn", "refused", "rejected", "unanswered", "unsent",
             "overwritten", "restart", "blank", "unread"}

initialHash == << >>

\* The hash after the events es, chained one by one after the hash h.
chainHashOf_EventOnly(h, es) == <<es[Len(es)]>>

chainHashOf(h, es) == h \o es

Unsealed(e) == [ev |-> e, hash |-> << >>]

EventsOf(es) == [i \in 1..Len(es) |-> es[i].ev]
EventSet(es) == {es[i].ev : i \in 1..Len(es)}

\* The entries of the events es, sealed from hash h on.
Sealed(h, es) ==
    [i \in 1..Len(es) |-> [ev |-> es[i], hash |-> chainHashOf(h, SubSeq(es, 1, i))]]

Garbage == [ev |-> 0, hash |-> << >>]    \* a line that is not an entry

Entries   == {i \in 1..Len(lines) : lines[i] # Garbage}
Directory == (gone + 1)..Len(starts)
Exists(n) == n \in Directory

\* The lines of the file appended to.
Size(n) == IF n <= Len(starts) THEN Len(lines) - starts[n] ELSE 0

Without(s, i) == SubSeq(s, 1, i - 1) \o SubSeq(s, i + 1, Len(s))

AuditInit ==
    /\ kind \in Kinds
    /\ nextEvent = 1
    /\ buffer = << >>
    /\ lastHash = initialHash
    /\ lines = << >>
    /\ starts = << >>
    /\ eol = TRUE
    /\ gone = 0
    /\ segment = 1
    /\ frozen = {}
    /\ flights = << >>
    /\ acked = {}
    /\ crashed = {}
    /\ causes = {}
    /\ faults = 0
-----------------------------------------------------------------------------
(* Appending to a file *)

\* The lines ls come to file n, the newest or a new one.  Text after a line
\* without newline becomes part of that line.
Appended(n, ls, newline) ==
    /\ lines' = IF n > Len(starts) \/ eol THEN lines \o ls
                ELSE [lines EXCEPT ![Len(lines)] = Garbage] \o Tail(ls)
    /\ starts' = IF n > Len(starts) THEN Append(starts, Len(lines)) ELSE starts
    /\ eol' = newline

\* The lines before one that is cut, within it or at its newline.
Torn(n, ls) ==
    \E k \in 1..Len(ls) : \E cut \in {Garbage, ls[k]} :
        Appended(n, SubSeq(ls, 1, k - 1) \o <<cut>>, FALSE)

\* An append that fails may have created the file.
Failed(n) == UNCHANGED medium \/ (n > Len(starts) /\ Appended(n, << >>, TRUE))

Outcomes(n) ==
    CASE n \in frozen       -> {"failed"}
      [] faults < MaxFaults -> {"ok", "failed", "torn"}
      [] OTHER              -> {"ok"}

\* appendFileSync of the lines ls to file n; cs is what else went wrong.
AppendFile(n, ls, o, cs) ==
    /\ o \in Outcomes(n)
    /\ CASE o = "ok"     -> Appended(n, ls, TRUE)
         [] o = "failed" -> Failed(n)
         [] o = "torn"   -> Torn(n, ls)
    /\ faults' = IF o = "ok" \/ n \in frozen THEN faults ELSE faults + 1
    /\ causes' = causes \cup cs \cup ({o} \ {"ok"})

\* The write of event e (0 for a flush of its own) returns ok.
Acknowledge(e, ok) == acked' = IF ok THEN acked \cup ({e} \ {0}) ELSE acked

-----------------------------------------------------------------------------
(* The memory sink and the event log write at once *)

MemoryWrite(e) ==
    /\ kind = "memory"
    /\ Appended(1, Sealed(lastHash, <<e>>), TRUE)
    /\ lastHash' = chainHashOf(lastHash, <<e>>)
    /\ Acknowledge(e, TRUE)
    /\ UNCHANGED <<buffer, gone, segment, frozen, flights, crashed, causes, faults>>

\* EventLogger._append: prevHash follows the file only when the append went
\* through; the handler answers ok in any case.
EventLogAppend_HashFirst(e) ==
    /\ kind = "eventlog"
    /\ \E o \in Outcomes(1) : AppendFile(1, Sealed(lastHash, <<e>>), o, {})
    /\ lastHash' = chainHashOf(lastHash, <<e>>)
    /\ Acknowledge(e, TRUE)
    /\ UNCHANGED <<buffer, gone, segment, frozen, flights, crashed>>

EventLogAppend(e) ==
    /\ kind = "eventlog"
    /\ \E o \in Outcomes(1) :
          /\ AppendFile(1, Sealed(lastHash, <<e>>), o, {})
          /\ lastHash' = IF o = "ok" THEN chainHashOf(lastHash, <<e>>) ELSE lastHash
    /\ Acknowledge(e, TRUE)
    /\ UNCHANGED <<buffer, gone, segment, frozen, flights, crashed>>
-----------------------------------------------------------------------------
(* FileAuditSink *)

\* _rotate: shifting the rotated files overwrites the oldest one.  A rotation
\* that fails (at its first rename) leaves the current file in place.
Rotations ==
    LET kept    == [seg |-> segment, gone |-> gone, cs |-> {}]
        rotated == IF segment - gone > MaxRotated
                   THEN [seg |-> segment + 1, gone |-> gone + 1, cs |-> {"overwritten"}]
                   ELSE [seg |-> segment + 1, gone |-> gone, cs |-> {}]
    IN  IF Size(segment) >= SegmentCap THEN {kept, rotated} ELSE {kept}

\* flush of a buffer: the events are sealed and lastHash advances before the
\* append, whose failure keeps the buffer for the next flush to seal again.
FileFlush(buf, e) ==
    \E r \in Rotations : \E o \in Outcomes(r.seg) :
        /\ AppendFile(r.seg, Sealed(lastHash, EventsOf(buf)), o, r.cs)
        /\ segment' = r.seg
        /\ gone' = r.gone
        /\ lastHash' = chainHashOf(lastHash, EventsOf(buf))
        /\ buffer' = IF o = "ok" THEN << >> ELSE buf
        /\ Acknowledge(e, o = "ok")

FileWrite(e) ==
    LET buf == Append(buffer, Unsealed(e)) IN
    /\ kind = "file"
    /\ IF Len(buf) >= FlushSize
       THEN FileFlush(buf, e)
       ELSE /\ buffer' = buf
            /\ Acknowledge(e, TRUE)
            /\ UNCHANGED <<lastHash, medium, gone, segment, causes, faults>>
    /\ UNCHANGED <<frozen, flights, crashed>>
-----------------------------------------------------------------------------
(* WormAuditSink *)

\* flush: a full segment is left for the next one; a segment beyond
\* maxSegments is refused and the buffer dropped, lastHash staying ahead.
WormSegment_Always == segment + 1

WormSegment ==
    IF Exists(segment) /\ Size(segment) >= SegmentCap THEN segment + 1 ELSE segment

EnforceMaxSegments ==
    \/ MaxSegments = 0
    \/ Exists(WormSegment)
    \/ Cardinality(Directory) < MaxSegments

WormRefused(e) ==
    /\ ~EnforceMaxSegments
    /\ buffer' = << >>
    /\ causes' = causes \cup {"refused"}
    /\ Acknowledge(e, FALSE)
    /\ UNCHANGED <<medium, faults>>

WormAppended(buf, e) ==
    /\ EnforceMaxSegments
    /\ \E o \in Outcomes(WormSegment) :
          /\ AppendFile(WormSegment, buf, o, {})
          /\ buffer' = IF o = "ok" THEN << >> ELSE buf
          /\ Acknowledge(e, o = "ok")

WormFlush(buf, e) ==
    /\ WormRefused(e) \/ WormAppended(buf, e)
    /\ segment' = WormSegment
    /\ UNCHANGED gone

\* write seals the event before it is buffered.  The check of verifyOnWrite is
\* the last conjunct of ChainBreaksExcused: it never throws.
WormWrite(e) ==
    LET buf == buffer \o Sealed(lastHash, <<e>>) IN
    /\ kind = "worm"
    /\ lastHash' = chainHashOf(lastHash, <<e>>)
    /\ IF Len(buf) >= FlushSize
       THEN WormFlush(buf, e)
       ELSE /\ buffer' = buf
            /\ Acknowledge(e, TRUE)
            /\ UNCHANGED <<medium, gone, segment, causes, faults>>
    /\ UNCHANGED <<frozen, flights, crashed>>

\* Of the current segment, the default; no append depends on that of others.
makeSegmentImmutable ==
    /\ kind = "worm"
    /\ Exists(segment) /\ segment \notin frozen
    /\ frozen' = frozen \cup {segment}
    /\ UNCHANGED <<kind, nextEvent, buffer, lastHash, medium, gone, segment,
                   flights, acked, crashed, causes, faults>>

\* The operator moves the oldest segment, never the newest, to other storage.
Archive ==
    /\ kind = "worm"
    /\ gone + 1 < Len(starts)
    /\ gone' = gone + 1
    /\ UNCHANGED <<kind, nextEvent, buffer, lastHash, medium, segment, frozen,
                   flights, acked, crashed, causes, faults>>
-----------------------------------------------------------------------------
(* HttpAuditSink *)

\* A flush that waits: what is on its way and whether it has arrived, the
\* events it has still to send, the write that waits for it, whether all went
\* well so far, and whether anyone still waits for the answer.
Flight(out, todo, e) ==
    [out |-> out, todo |-> todo, writer |-> e, arrived |-> FALSE, ok |-> TRUE, live |-> TRUE]

\* flush up to the fetch: the buffer is taken and sealed as one batch.
HttpFlush(buf, e) ==
    /\ flights' = Append(flights, Flight(Sealed(lastHash, EventsOf(buf)), << >>, e))
    /\ lastHash' = chainHashOf(lastHash, EventsOf(buf))
    /\ buffer' = << >>

\* A write that only fills the buffer is acknowledged at once.
BufferOnly(e) ==
    /\ Len(buffer) + 1 < FlushSize
    /\ buffer' = Append(buffer, Unsealed(e))
    /\ Acknowledge(e, TRUE)
    /\ UNCHANGED <<lastHash, flights>>

HttpWrite(e) ==
    /\ kind = "http"
    /\ \/ BufferOnly(e)
       \/ /\ Len(buffer) + 1 >= FlushSize
          /\ Len(flights) < MaxFlights
          /\ HttpFlush(Append(buffer, Unsealed(e)), e)
          /\ UNCHANGED acked
    /\ UNCHANGED <<medium, gone, segment, frozen, crashed, causes, faults>>

\* A batch reaches the endpoint, perhaps after its flush has timed out.
HttpArrives(i) ==
    /\ kind = "http"
    /\ ~flights[i].arrived
    /\ Appended(1, flights[i].out, TRUE)
    /\ flights' = IF flights[i].live THEN [flights EXCEPT ![i].arrived = TRUE]
                  ELSE Without(flights, i)
    /\ UNCHANGED <<kind, nextEvent, buffer, lastHash, gone, segment, frozen,
                   acked, crashed, causes, faults>>

\* res.ok is returned as it is: a batch that is refused is not buffered again.
HttpAnswered(i) ==
    /\ kind = "http"
    /\ flights[i].live
    /\ flights' = Without(flights, i)
    /\ \/ /\ flights[i].arrived
          /\ Acknowledge(flights[i].writer, TRUE)
          /\ UNCHANGED <<causes, faults>>
       \/ /\ faults < MaxFaults
          /\ faults' = faults + 1
          /\ causes' = causes \cup {"rejected"}
          /\ UNCHANGED acked
    /\ UNCHANGED <<kind, nextEvent, buffer, lastHash, medium, gone, segment,
                   frozen, crashed>>

\* fetch throws: the events go back in front of the buffer, unsealed.
HttpUnanswered_Forgets(i) ==
    /\ kind = "http"
    /\ flights[i].live
    /\ faults < MaxFaults
    /\ faults' = faults + 1
    /\ causes' = causes \cup {"unanswered"}
    /\ flights' = Without(flights, i)
    /\ UNCHANGED <<kind, nextEvent, buffer, lastHash, medium, gone, segment,
                   frozen, acked, crashed>>

HttpUnanswered(i) ==
    /\ kind = "http"
    /\ flights[i].live
    /\ faults < MaxFaults
    /\ faults' = faults + 1
    /\ causes' = causes \cup {"unanswered"}
    /\ buffer' = [k \in 1..Len(flights[i].out) |-> Unsealed(flights[i].out[k].ev)] \o buffer
    /\ flights' = IF flights[i].arrived THEN Without(flights, i)
                  ELSE [flights EXCEPT ![i].live = FALSE]
    /\ UNCHANGED <<kind, nextEvent, lastHash, medium, gone, segment, frozen,
                   acked, crashed>>
-----------------------------------------------------------------------------
(* SyslogAuditSink *)

\* flush takes the buffer, then seals and sends one event at a time, each
\* with the lastHash of that moment: two flushes may take turns.
SyslogFlush(buf, e) ==
    /\ flights' = Append(flights, Flight(Sealed(lastHash, <<buf[1].ev>>), Tail(EventsOf(buf)), e))
    /\ lastHash' = chainHashOf(lastHash, <<buf[1].ev>>)
    /\ buffer' = << >>

SyslogWrite(e) ==
    /\ kind = "syslog"
    /\ \/ BufferOnly(e)
       \/ /\ Len(buffer) + 1 >= FlushSize
          /\ Len(flights) < MaxFlights
          /\ SyslogFlush(Append(buffer, Unsealed(e)), e)
          /\ UNCHANGED acked
    /\ UNCHANGED <<medium, gone, segment, frozen, crashed, causes, faults>>

\* sendUdp, sendTcp, sendTls answer true or false; a message may be lost in
\* both cases (a datagram on its way), or have arrived in both (a timeout
\* after the write).
SyslogSent(i, ok, arrives) ==
    LET f == flights[i] IN
    /\ kind = "syslog"
    /\ IF ok /\ arrives THEN UNCHANGED <<causes, faults>>
       ELSE /\ faults < MaxFaults
            /\ faults' = faults + 1
            /\ causes' = causes \cup {"unsent"}
    /\ IF arrives THEN Appended(1, f.out, TRUE) ELSE UNCHANGED medium
    /\ IF f.todo = << >>
       THEN /\ flights' = Without(flights, i)
            /\ Acknowledge(f.writer, f.ok /\ ok)
            /\ UNCHANGED lastHash
       ELSE /\ flights' = [flights EXCEPT ![i].out = Sealed(lastHash, <<Head(f.todo)>>),
                                          ![i].todo = Tail(f.todo),
                                          ![i].ok = f.ok /\ ok]
            /\ lastHash' = chainHashOf(lastHash, <<Head(f.todo)>>)
            /\ UNCHANGED acked
    /\ UNCHANGED <<kind, nextEvent, buffer, gone, segment, frozen, crashed>>
-----------------------------------------------------------------------------
(* AuditLogger and the process *)

\* AuditLogger.record, or an event the EventLogger is subscribed to.
record ==
    /\ nextEvent <= MaxEvents
    /\ nextEvent' = nextEvent + 1
    /\ UNCHANGED kind
    /\ \/ MemoryWrite(nextEvent)
       \/ EventLogAppend(nextEvent)
       \/ FileWrite(nextEvent)
       \/ WormWrite(nextEvent)
       \/ HttpWrite(nextEvent)
       \/ SyslogWrite(nextEvent)

\* AuditLogger.flush, and close, which flushes.
flush ==
    /\ buffer # << >>
    /\ Len(flights) < MaxFlights
    /\ \/ kind = "file" /\ FileFlush(buffer, 0) /\ UNCHANGED flights
       \/ kind = "worm" /\ WormFlush(buffer, 0) /\ UNCHANGED <<lastHash, flights>>
       \/ /\ kind \in Networks
          /\ (kind = "http" /\ HttpFlush(buffer, 0)) \/ (kind = "syslog" /\ SyslogFlush(buffer, 0))
          /\ UNCHANGED <<medium, gone, segment, acked, causes, faults>>
    /\ UNCHANGED <<kind, nextEvent, frozen, crashed>>

\* _restoreLastHash, of the last entry the newest segment holds.
RestoredHash ==
    LET es == {i \in Entries : i > starts[Len(starts)]}
    IN  IF starts = << >> \/ es = {} THEN initialHash
        ELSE lines[CHOOSE i \in es : \A j \in es : j <= i].hash

\* _recoverChain, of the last line or from the start.
RecoveredHash ==
    IF lines = << >> \/ lines[Len(lines)] = Garbage THEN initialHash
    ELSE lines[Len(lines)].hash

HashOnStart_Genesis == initialHash

HashOnStart ==
    CASE kind = "worm"     -> RestoredHash
      [] kind = "eventlog" -> RecoveredHash
      [] OTHER             -> initialHash

StoredEvents == {lines[i].ev : i \in Entries}

InMemory ==
    EventSet(buffer)
    \cup (UNION {EventSet(flights[i].out) \cup Range(flights[i].todo) : i \in 1..Len(flights)})
    \cup (IF kind = "memory" THEN StoredEvents ELSE {})

\* The process dies, after an append it may have torn, and starts again.  The
\* hash of before is read back from the newest file; a read that fails leaves
\* the genesis hash.
Restart ==
    /\ faults < MaxFaults
    /\ faults' = faults + 1
    /\ crashed' = crashed \cup InMemory
    /\ \/ /\ lastHash' = HashOnStart
          /\ causes' = causes \cup {"restart"} \cup
                 IF kind = "worm" /\ Entries # {} /\ RestoredHash = initialHash
                 THEN {"blank"} ELSE {}
       \/ /\ kind \in Durable
          /\ lastHash' = initialHash
          /\ causes' = causes \cup {"restart", "unread"}
    /\ segment' = IF kind = "worm" /\ starts # << >> THEN Len(starts) ELSE segment
    /\ IF kind = "memory" THEN lines' = << >> /\ starts' = << >> /\ eol' = TRUE
       ELSE UNCHANGED medium
    /\ buffer' = << >>
    /\ flights' = << >>
    /\ UNCHANGED <<kind, nextEvent, gone, frozen, acked>>

AuditNext ==
    \/ record
    \/ flush
    \/ makeSegmentImmutable
    \/ Archive
    \/ \E i \in 1..Len(flights) : HttpArrives(i) \/ HttpAnswered(i) \/ HttpUnanswered(i)
    \/ \E i \in 1..Len(flights), ok, arrives \in BOOLEAN : SyslogSent(i, ok, arrives)
    \/ Restart

AuditSpec == AuditInit /\ [][AuditNext]_auditVars
-----------------------------------------------------------------------------
(* Verification *)

\* Every entry is sealed from the one before it, lines that cannot be parsed
\* being skipped.
Linked ==
    \A j \in Entries :
        \/ /\ \A k \in 1..(j - 1) : lines[k] = Garbage
           /\ lines[j].hash = chainHashOf(initialHash, <<lines[j].ev>>)
        \/ \E i \in 1..(j - 1) :
              /\ lines[i] # Garbage /\ \A k \in (i + 1)..(j - 1) : lines[k] = Garbage
              /\ lines[j].hash = chainHashOf(lines[i].hash, <<lines[j].ev>>)

\* verifyIntegrity skips lines it cannot parse, verifyLog rejects them.  The
\* archived segments are put back first.
verify ==
    /\ Linked
    /\ kind = "eventlog" => Entries = 1..Len(lines)

\* Everything that is recorded is a number of an event, every file that is
\* appended to is the newest or one beyond it.
AuditTypeOK ==
    /\ kind \in Kinds
    /\ nextEvent \in 1..(MaxEvents + 1)
    /\ EventSet(buffer) \subseteq 1..(nextEvent - 1)
    /\ Range(lastHash) \subseteq 1..(nextEvent - 1)
    /\ StoredEvents \subseteq 1..(nextEvent - 1)
    /\ gone \in 0..Len(starts)
    /\ segment \in {Len(starts), Len(starts) + 1}
    /\ frozen \subseteq 1..Len(starts)
    /\ acked \subseteq 1..(nextEvent - 1) /\ crashed \subseteq 1..(nextEvent - 1)
    /\ causes \subseteq Causes
    /\ faults \in 0..MaxFaults

BreakCauses ==
    [memory |-> {}, worm |-> {"torn", "refused", "blank", "unread"}, eventlog |-> {"torn", "unread"},
     file |-> {"failed", "torn", "restart"}, http |-> Causes, syslog |-> Causes]

\* No false alarm (verifyIntegrity, verifyLog, verifyChain; the file sink's
\* chain runs through its rotated files): the stored chain is broken only by a
\* torn append, a refused segment, a restart on a segment without an entry
\* (WORM) or on a file that could not be read, and for the file sink, which
\* seals before it appends and restarts from the genesis hash, a failed append
\* or a restart.  And the check of WormAuditSink.write, "this should never
\* happen", never throws.
ChainBreaksExcused ==
    /\ causes \cap BreakCauses[kind] = {} /\ kind \notin Networks => verify
    /\ kind = "worm" /\ buffer # << >> => buffer[Len(buffer)].hash = lastHash

LossCauses ==
    [memory |-> {}, file |-> {"torn", "overwritten"}, worm |-> {"torn", "refused"},
     http |-> {"rejected"}, syslog |-> {"unsent"}, eventlog |-> {"failed", "torn"}]

\* The entries that can still be read: a rotation overwrites the oldest file.
KeptEvents ==
    {lines[i].ev : i \in {j \in Entries : kind = "file" => \E n \in Directory : starts[n] < j}}

\* An event whose write was answered with true is stored, buffered or on its
\* way, unless a crash took it from memory or the one kind of fault happened
\* that its sink does not retry: a failed append (file, WORM) and an answer
\* that does not come (http) are retried.
LossExcused ==
    \A e \in acked :
        \/ e \in KeptEvents \cup InMemory \cup crashed
        \/ causes \cap LossCauses[kind] # {}

\* No silent loss (verifyIntegrity, verifyLog): when verification accepts the
\* log, an event missing between two stored ones was lost by a crash, or was
\* one whose append to the event log failed.  Of the WORM sink the one other
\* excuse is a restart after a torn append or a refused segment: lastHash,
\* which alone remembers the lost event, is then read back from the file.
VerifiedMeansNoHole ==
    kind \in Durable /\ verify =>
        \A e \in 1..(nextEvent - 1) :
            \/ e \in StoredEvents \cup crashed
            \/ \A d \in StoredEvents : d < e
            \/ kind = "eventlog" /\ "failed" \in causes
            \/ kind = "worm" /\ "restart" \in causes /\ causes \cap {"torn", "refused"} # {}

Log == INSTANCE TamperEvidentLog
           WITH accepted <- nextEvent - 1,
                pending  <- EventsOf(buffer),
                trail    <- lines,
                intact   <- kind \in Durable /\ causes \cap {"torn", "refused", "blank", "unread"} = {}

\* The WORM sink and the event log implement a tamper-evident log, until an
\* append is torn, a segment refused or the hash not found or not read at a
\* restart.
RefinesTamperEvidentLog == Log!Spec
=============================================================================
