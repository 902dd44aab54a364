----------------------------- MODULE TraceWriter -----------------------------
(***************************************************************************)
(* The trace files (trace.py) and the handlers that acknowledge them        *)
(* (api/app.py, llm_proxy.py).  Handlers queue records under one lock; a     *)
(* writer thread appends them to buffered files and syncs only at a flush    *)
(* marker; a handler answers "stored" or "drained" when its marker was       *)
(* served without error.  Hooks that never come are written as incomplete    *)
(* spans by drain, abort, release and close.                                 *)
(*                                                                           *)
(* A span is a tool or model call; its span_start and span_end lines, queued *)
(* together, are one record.  A capture is what the LLM proxy saw of a model *)
(* call; the model's record takes it along when it can be matched.           *)
(* Writing into a buffer shows nowhere before the next marker, so the writer *)
(* takes the records in front of a marker together with it.  A file is the   *)
(* set of its records: the queue keeps their order.                          *)
(***************************************************************************)
EXTENDS Naturals, Sequences, SequencesExt, FiniteSets

CONSTANTS Spans, Captures, Runtimes,
          RuntimeOf,      \* Spans \cup Captures -> Runtimes
          Models,         \* spans whose end event is sent again after an error
          MaxRecent,      \* captures kept for correlation (2048)
          MaxErrors,      \* bound: writes and syncs that fail, waits that time out
          MaxCrashes,     \* bound
          Nothing         \* no span, no capture

ASSUME TraceAssumption ==
    /\ RuntimeOf \in [Spans \cup Captures -> Runtimes]
    /\ Models \subseteq Spans
    /\ MaxRecent \in Nat /\ MaxErrors \in Nat /\ MaxCrashes \in Nat
    /\ Spans \cap Captures = {} /\ Spans \cap Runtimes = {}
    /\ Nothing \notin Spans \cup Captures
    /\ IsFiniteSet(Spans) /\ IsFiniteSet(Captures) /\ IsFiniteSet(Runtimes)

VARIABLES
    span,       \* span -> "new", "started", "past" (of an earlier process)
    pending,    \* _tool_starts and _model_starts
    capture,    \* capture -> "new", "captured", "past"
    recent,     \* _recent_proxy_calls, without their order
    headed,     \* _metadata_written
    queue,      \* _write_queue
    writeError, \* _write_error
    closed,     \* _closed
    closer,     \* progress of close(): "open", "joining", "closed", "raised"
    thread,     \* _writer_thread is alive
    buffered,   \* file -> records in the buffer after a failed sync
    synced,     \* file -> records on disk
    handler,    \* handler -> progress
    covers,     \* history: runtime -> what its drain or abort makes durable
    errors, crashes

lifecycle == <<span, pending, capture, recent>>
files == <<buffered, synced>>
writer == <<writeError, thread, errors, files>>
intake == <<headed, queue>>
closing == <<closed, closer>>
vars == <<lifecycle, intake, writer, closing, handler, covers, crashes>>

\* A completion or model event per span, a drain or an abort per runtime.
Handlers == Spans \cup Runtimes

Record(kind, r, s, c) == [kind |-> kind, file |-> r, span |-> s, capture |-> c]
Metadata(r) == Record("metadata", r, Nothing, Nothing)
Span(s, c) == Record("span", RuntimeOf[s], s, c)
Incomplete(s) == Record("incomplete", RuntimeOf[s], s, Nothing)
Unmatched(c) == Record("unmatched", RuntimeOf[c], Nothing, c)
Finalization(r) == Record("finalization", r, Nothing, Nothing)
Records == [kind : {"metadata", "span", "incomplete", "unmatched", "finalization"},
            file : Runtimes, span : Spans \cup {Nothing}, capture : Captures \cup {Nothing}]

Marker(h) == [kind |-> "marker", handler |-> h]
Stop == [kind |-> "stop"]
IsRecord(item) == item.kind \notin {"marker", "stop"}

Flushing(h) == handler[h] \in {"recorded", "waiting"}
Busy(r) == \E s \in Spans : RuntimeOf[s] = r /\ Flushing(s)

Init ==
    /\ span = [s \in Spans |-> "new"] /\ pending = {}
    /\ capture = [c \in Captures |-> "new"] /\ recent = {}
    /\ headed = {}
    /\ queue = <<>> /\ writeError = FALSE
    /\ closed = FALSE /\ closer = "open" /\ thread = TRUE
    /\ buffered = [r \in Runtimes |-> {}] /\ synced = [r \in Runtimes |-> {}]
    /\ handler = [h \in Handlers |-> "new"]
    /\ covers = [r \in Runtimes |-> {}]
    /\ errors = 0 /\ crashes = 0

TypeOK ==
    /\ span \in [Spans -> {"new", "started", "past"}]
    /\ pending \subseteq {s \in Spans : span[s] = "started"}
    /\ capture \in [Captures -> {"new", "captured", "past"}]
    /\ recent \subseteq {c \in Captures : capture[c] = "captured"}
    /\ Cardinality(recent) <= MaxRecent
    /\ headed \subseteq Runtimes
    /\ closed <=> closer # "open"
    /\ thread \/ closed
    /\ handler \in [Handlers -> {"new", "recorded", "waiting", "stored", "failed"}]

-----------------------------------------------------------------------------
(* Queueing, under _lock.                                                    *)

\* _ensure_metadata puts a header in front of the first record of a file that is
\* missing or empty.
Headless(r) == r \notin headed /\ synced[r] = {}

HeadersFirst(list) == \A i, j \in DOMAIN list : list[j] = Metadata(list[i].file) => j <= i

Orders(paths, records) ==
    {list \in SetToSeqs({Metadata(r) : r \in {p \in paths : Headless(p)}} \cup records) :
        HeadersFirst(list)}

\* _append, for records of these files.
Enqueue(paths, records) ==
    /\ \E list \in Orders(paths, records) : queue' = queue \o list
    /\ headed' = headed \cup paths

\* finalize_pending of one runtime: what has no end becomes an incomplete
\* record, what has no model event an unmatched one.
OpenOf(r) == {s \in pending : RuntimeOf[s] = r}
RecentOf(r) == {c \in recent : RuntimeOf[c] = r}
Leftovers(r) == {Incomplete(s) : s \in OpenOf(r)} \cup {Unmatched(c) : c \in RecentOf(r)}

Finalize(r, extra) ==
    /\ IF Leftovers(r) \cup extra = {} THEN UNCHANGED intake
                                      ELSE Enqueue({r}, Leftovers(r) \cup extra)
    /\ pending' = pending \ OpenOf(r)
    /\ recent' = recent \ RecentOf(r)

-----------------------------------------------------------------------------
(* Events.                                                                  *)

\* record_tool_started, or the started event of a model call.
Start(s) ==
    /\ span[s] = "new" /\ ~closed
    /\ span' = [span EXCEPT ![s] = "started"]
    /\ pending' = pending \cup {s}
    /\ UNCHANGED <<capture, recent, intake, writer, closing, handler, covers, crashes>>

\* A capture belongs to an ended model call if it is the only candidate.
Matches(s) == {Nothing} \cup (IF s \in Models THEN RecentOf(RuntimeOf[s]) ELSE {})

\* Mutant: the matched capture stays in the list.
TakeKept(c) == UNCHANGED recent

TakeCapture(c) == recent' = recent \ {c}

\* record_tool or record_model; the handler then flushes.  A model event that
\* was answered with an error comes again; a tool completion does not.
End(s) ==
    /\ span[s] = "started" /\ ~closed
    /\ handler[s] = "new" \/ (s \in Models /\ handler[s] = "failed")
    /\ \E c \in Matches(s) :
          /\ Enqueue({RuntimeOf[s]}, {Span(s, c)})
          /\ TakeCapture(c)
    /\ pending' = pending \ {s}
    /\ handler' = [handler EXCEPT ![s] = "recorded"]
    /\ UNCHANGED <<span, capture, writer, closing, covers, crashes>>

\* The span was popped, and queueing raises: the handler answers 503.
EndAfterClose(s) ==
    /\ span[s] = "started" /\ closed /\ handler[s] = "new"
    /\ pending' = pending \ {s}
    /\ handler' = [handler EXCEPT ![s] = "failed"]
    /\ UNCHANGED <<span, capture, recent, intake, writer, closing, covers, crashes>>

\* record_llm_proxy_call: ended, failed and cancelled calls alike.  At capacity
\* the captures of the runtime that owns the oldest are written as unmatched.
Remember(c) ==
    /\ capture[c] = "new" /\ ~closed
    /\ capture' = [capture EXCEPT ![c] = "captured"]
    /\ LET all == recent \cup {c} IN
       IF Cardinality(all) <= MaxRecent
       THEN recent' = all /\ UNCHANGED intake
       ELSE \E oldest \in all :
               LET r == RuntimeOf[oldest]
                   old == {d \in all : RuntimeOf[d] = r} IN
               /\ recent' = all \ old
               /\ Enqueue({r}, {Unmatched(d) : d \in old})
    /\ UNCHANGED <<span, pending, writer, closing, handler, covers, crashes>>

Finish(r, extra) ==
    /\ handler[r] = "new" /\ ~closed
    /\ handler' = [handler EXCEPT ![r] = "recorded"]
    /\ covers' = [covers EXCEPT ![r] =
                    extra
                    \cup {s \in Spans : RuntimeOf[s] = r /\ span[s] = "started"}
                    \cup {c \in Captures : RuntimeOf[c] = r /\ capture[c] = "captured"}]
    /\ Finalize(r, extra)
    /\ UNCHANGED <<span, capture, writer, closing, crashes>>

\* Drain finds the runtime idle, finalises it, and then awaits the flush; an
\* abort ends with the same and a record of its own, idle or not.
Drain(r) == ~Busy(r) /\ Finish(r, {})
Abort(r) == Finish(r, {Finalization(r)})

\* release_runtime forgets the runtime after it has written what was open.
Release(r) ==
    /\ handler[r] = "stored" /\ ~closed
    /\ OpenOf(r) # {} \/ RecentOf(r) # {}
    /\ Finalize(r, {})
    /\ UNCHANGED <<span, capture, writer, closing, handler, covers, crashes>>

-----------------------------------------------------------------------------
(* flush(), in a thread of its handler.                                     *)

Answered(h, ok) == handler' = [handler EXCEPT ![h] = IF ok THEN "stored" ELSE "failed"]

\* _flushed_version = _queued_version: versions count records, and the writer
\* has taken a marker behind the last one.
Unserved == \E i \in DOMAIN queue : IsRecord(queue[i])

\* Mutant: nothing new is queued, so there is nothing to report.
UpToDateAnyway(h) == ~Unserved /\ Answered(h, TRUE) /\ UNCHANGED queue
UpToDate(h) == ~Unserved /\ Answered(h, ~writeError) /\ UNCHANGED queue

FlushBegin(h) ==
    /\ handler[h] = "recorded"
    /\ \/ closed /\ Answered(h, ~thread /\ ~writeError) /\ UNCHANGED queue
       \/ ~closed /\ UpToDate(h)
       \/ /\ ~closed /\ Unserved
          /\ queue' = Append(queue, Marker(h))
          /\ handler' = [handler EXCEPT ![h] = "waiting"]
    /\ UNCHANGED <<lifecycle, headed, writer, closing, covers, crashes>>

Failing(n) == errors + n <= MaxErrors /\ errors' = errors + n

FlushTimeout(h) ==
    /\ handler[h] = "waiting" /\ Failing(1)
    /\ handler' = [handler EXCEPT ![h] = "failed"]
    /\ UNCHANGED <<lifecycle, intake, writeError, thread, files, closing, covers, crashes>>

-----------------------------------------------------------------------------
(* The writer thread.                                                       *)

\* The records of a file among the first n items.
Taken(r, n) == {queue[i] : i \in {j \in 1 .. n : IsRecord(queue[j]) /\ queue[j].file = r}}

Sticky(failed) == writeError \/ failed

\* Records are written, and every dirty file is flushed and synced.  A record
\* that cannot be written is lost, a file that cannot be synced stays dirty, and
\* the error sticks.
WriteBatch(n) ==
    \E lost \in {{}} \cup {{queue[i]} : i \in {j \in 1 .. n : IsRecord(queue[j])}} :
    \E bad \in SUBSET Runtimes :
        LET dirty == [r \in Runtimes |-> buffered[r] \cup (Taken(r, n) \ lost)] IN
        /\ \A r \in bad : dirty[r] # {}
        /\ Failing(Cardinality(lost) + Cardinality(bad))
        /\ writeError' = Sticky(lost # {} \/ bad # {})
        /\ synced' = [r \in Runtimes |-> IF r \in bad THEN synced[r] ELSE synced[r] \cup dirty[r]]
        /\ buffered' = [r \in Runtimes |-> IF r \in bad THEN dirty[r] ELSE {}]

\* A marker that is the handler's last: those before it belong to flushes that
\* timed out.
Awaited(h) == handler[h] = "waiting" /\ \A i \in DOMAIN queue' : queue'[i] # Marker(h)

Serve ==
    /\ thread
    /\ \E n \in DOMAIN queue :
          /\ ~IsRecord(queue[n]) /\ \A i \in 1 .. n - 1 : IsRecord(queue[i])
          /\ queue' = SubSeq(queue, n + 1, Len(queue))
          /\ WriteBatch(n)
          /\ IF queue[n] = Stop
             THEN thread' = FALSE /\ UNCHANGED handler
             ELSE /\ IF Awaited(queue[n].handler) THEN Answered(queue[n].handler, ~writeError')
                                                  ELSE UNCHANGED handler
                  /\ UNCHANGED thread
    /\ UNCHANGED <<lifecycle, headed, closing, covers, crashes>>

-----------------------------------------------------------------------------
(* close() at shutdown, and a process that dies.                            *)

\* Everything open is finalised, every routed file gets a header.
CloseBegin ==
    /\ ~closed
    /\ closed' = TRUE /\ closer' = "joining"
    /\ \E list \in Orders(Runtimes, UNION {Leftovers(r) : r \in Runtimes}) :
          queue' = queue \o Append(list, Stop)
    /\ headed' = Runtimes
    /\ pending' = {} /\ recent' = {}
    /\ UNCHANGED <<span, capture, writer, handler, covers, crashes>>

\* Mutant: the thread has ended, so all is well.
CloseOutcomeJoined == IF thread THEN "raised" ELSE "closed"
CloseOutcome == IF thread \/ writeError THEN "raised" ELSE "closed"

\* The join returns when the thread has ended, or after ten seconds.
CloseEnd ==
    /\ closer = "joining"
    /\ closer' = CloseOutcome
    /\ UNCHANGED <<lifecycle, intake, writer, closed, handler, covers, crashes>>

\* The process dies: of what was not synced, any prefix is in the file.  The
\* next process appends to the same files.
Past(x, set) == [e \in set |-> IF x[e] = "new" THEN "new" ELSE "past"]

Crash ==
    /\ crashes < MaxCrashes /\ crashes' = crashes + 1
    /\ \E n \in 0 .. Len(queue) :
          synced' = [r \in Runtimes |-> synced[r] \cup buffered[r] \cup Taken(r, n)]
    /\ buffered' = [r \in Runtimes |-> {}]
    /\ span' = Past(span, Spans) /\ pending' = {}
    /\ capture' = Past(capture, Captures) /\ recent' = {}
    /\ headed' = {} /\ queue' = <<>>
    /\ writeError' = FALSE
    /\ closed' = FALSE /\ closer' = "open" /\ thread' = TRUE
    /\ handler' = [h \in Handlers |->
          IF Flushing(h) THEN "failed" ELSE handler[h]]
    /\ UNCHANGED <<errors, covers>>

Next == \/ \E s \in Spans : Start(s) \/ End(s) \/ EndAfterClose(s)
        \/ \E c \in Captures : Remember(c)
        \/ \E r \in Runtimes : Drain(r) \/ Abort(r) \/ Release(r)
        \/ \E h \in Handlers : FlushBegin(h) \/ FlushTimeout(h)
        \/ Serve \/ CloseBegin \/ CloseEnd \/ Crash

Spec == Init /\ [][Next]_vars

-----------------------------------------------------------------------------
(* Properties.                                                              *)

Synced == UNION {synced[r] : r \in Runtimes}
Written == Synced \cup UNION {buffered[r] : r \in Runtimes}
Queued == {queue[i] : i \in {j \in DOMAIN queue : IsRecord(queue[j])}}
Everything == Written \cup Queued

\* What a record tells: itself, its span and its capture, and the end of a span.
EndOf(s) == [kind |-> "ended", span |-> s]
Tells(rec) == {rec, rec.span, rec.capture}
              \cup (IF rec.kind = "span" THEN {EndOf(rec.span)} ELSE {})
Told(records) == UNION {Tells(rec) : rec \in records}

\* "A successful barrier means all preceding records reached storage": stored,
\* drained and trace_flushed answers hold through failed writes, failed syncs,
\* timeouts, late markers and crashes, and no file loses a record it has.
Promised(h) == IF h \in Spans THEN {EndOf(h)} ELSE covers[h]
Durable == INSTANCE AcknowledgedStore
              WITH durable <- Told(Synced),
                   acked <- UNION {Promised(h) : h \in {x \in Handlers : handler[x] = "stored"}}
ImplementsAcknowledgedStore == Durable!Spec

\* No started span and no capture disappears: it waits for its end, or a record
\* of it is on its way to the file, unless a write failed.
NoneDropped ==
    ~writeError =>
        /\ \A s \in Spans : span[s] = "started" => s \in pending \cup Told(Everything)
        /\ \A c \in Captures : capture[c] = "captured" => c \in recent \cup Told(Everything)

\* And none is written twice: a capture is attached to one model call or written as unmatched, never both
\* and never twice, and nothing that is in a file is queued again but the span
\* of a repeated model event.  A file that has any record has its header, and
\* gets no second one from a process that appends to it.
Repeatable(rec) == \E s \in Models : rec = Span(s, Nothing)
About(c) == {rec \in Everything : rec.capture = c}
NoneTwice ==
    /\ \A i, j \in DOMAIN queue :
          IsRecord(queue[i]) /\ queue[i] = queue[j] => i = j \/ Repeatable(queue[i])
    /\ \A rec \in Queued \cap Written : Repeatable(rec)
    /\ \A c \in Captures : Cardinality(About(c)) <= 1
    /\ \A c \in recent : About(c) = {}
    /\ errors = 0 => \A r \in Runtimes : synced[r] # {} => Metadata(r) \in synced[r]

EachOnce == NoneDropped /\ NoneTwice

\* A close that does not raise has written everything that was open.
ClosedIsComplete ==
    closer = "closed" =>
        /\ \A s \in Spans : span[s] = "started" => s \in Told(Synced)
        /\ \A c \in Captures : capture[c] = "captured" => c \in Told(Synced)

=============================================================================
