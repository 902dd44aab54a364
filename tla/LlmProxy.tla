------------------------------ MODULE LlmProxy ------------------------------
(***************************************************************************)
(* The model calls that pass through the sidecar (llm_proxy.py).  A streamed  *)
(* answer is an asynchronous generator: it waits for bytes of the provider,   *)
(* cuts them into events, hands the whole ones to the client, and may be      *)
(* cancelled at every wait and every yield.  When it ends, what it collected  *)
(* is given to the trace (trace.py), and the count of the streams under way,  *)
(* which drain and abort read, goes down.  Between two waits the event loop   *)
(* runs nothing else.                                                         *)
(*                                                                            *)
(* An event is what the proxy makes of it: "text" has content or a tool call,  *)
(* "thought" has only reasoning, "role" has neither, "error" is an error        *)
(* object, "done" is [DONE] or an event without data.  The bytes of an event   *)
(* are two halves, so that it may be split between two chunks.                 *)
(***************************************************************************)
EXTENDS Naturals, Sequences, SequencesExt, FiniteSets

CONSTANTS Calls, Runtimes,
          Streamed,   \* the calls whose request asks for a stream
          CallOf,     \* Calls -> Runtimes
          Replies     \* Calls -> the answers that its provider may give, see ReplyAssumption

Kinds == {"role", "thought", "text", "error", "done"}

\* Many calls, each of one runtime.  An answer at once that is no refusal holds a
\* message or an error object, never both.
ReplyAssumption ==
    /\ Streamed \subseteq Calls /\ IsFiniteSet(Streamed) /\ CallOf \in [Calls -> Runtimes]
    /\ \A c \in Calls : \A r \in Replies[c] :
          /\ r.status \in {200, 500} /\ r.events \in Seq(Kinds)
          /\ c \notin Streamed /\ r.status < 400 => "error" \notin ToSet(r.events)

VARIABLES
    call,      \* call -> the locals of its handler, and what its client received
    activity,  \* _proxy_activity
    released,  \* runtimes that release_runtime has forgotten
    shut       \* the trace writer is closed

vars == <<call, activity, released, shut>>

NoReply == [status |-> 200, events |-> <<>>]
Unrecorded == [outcome |-> "none", content |-> <<>>]

\* at     where the handler is: "opened" is a stream nobody has read from yet,
\*        "reading" waits for the provider, "yielding", "flushing", "failing" and
\*        "closing" wait for the client to take "out"
\* read   half events received;  cut: events cut from them
New == [at |-> "new", reply |-> NoReply, read |-> 0, cut |-> 0, chunks |-> <<>>,
        done |-> FALSE, status |-> 200, error |-> FALSE, out |-> <<>>,
        got |-> <<>>, gone |-> FALSE, record |-> Unrecorded]

Init ==
    /\ call = [c \in Calls |-> New]
    /\ activity = [r \in Runtimes |-> 0]
    /\ released = {}
    /\ shut = FALSE

Waiting == {"yielding", "flushing", "failing", "closing"}

TypeOK ==
    /\ DOMAIN call = Calls
    /\ \A c \in Calls :
          /\ call[c].at \in {"new", "opened", "asked", "reading", "concluding", "unread", "ended"}
                            \cup Waiting
          /\ call[c].out # <<>> <=> call[c].at \in Waiting
          /\ call[c].status \in {200, 499, 500, 502}
    /\ activity \in [Runtimes -> Nat]
    /\ released \subseteq Runtimes /\ shut \in BOOLEAN

-----------------------------------------------------------------------------
(* Events.                                                                   *)

\* _merge_reasoning, before an event is forwarded or kept.
Merged(events) == [i \in DOMAIN events |-> IF events[i] = "thought" THEN "text" ELSE events[i]]
\* The events that are passed on and kept: all but the markers, in their order.
Data(events) ==
    LET upTo[n \in 0 .. Len(events)] ==
            IF n = 0 THEN <<>>
            ELSE IF events[n] = "done" THEN upTo[n - 1]
            ELSE Append(upTo[n - 1], events[n])
    IN  upTo[Len(events)]
HasPayload(events) == "text" \in ToSet(events)

\* _parse_sse_buffer: the events whose last byte has come; the rest stays in the
\* buffer.  Mutant: the buffer is kept when it ends in a part of an event.
CutAgain(k, n) == IF n % 2 = 1 THEN k.cut ELSE n \div 2

Whole(k, n) == Merged(SubSeq(k.reply.events, k.cut + 1, n \div 2))
CutTo(k, n) == n \div 2

\* The loop over parsed events.
Take(k, events) ==
    [k EXCEPT !.chunks = @ \o Data(events),
              !.done = @ \/ "done" \in ToSet(events),
              !.error = @ \/ "error" \in ToSet(events),
              !.out = Data(events)]

-----------------------------------------------------------------------------
(* The activity of a runtime and the record of a call.                       *)

\* Mutant: the first stream to end takes the runtime's entry along.
EndActivityAll(r) == activity' = [activity EXCEPT ![r] = 0]
EndActivity(r) == activity' = [activity EXCEPT ![r] = IF @ > 0 THEN @ - 1 ELSE 0]

\* record_llm_proxy_call; a closed writer raises.
Recorded(k, failed) ==
    IF shut THEN Unrecorded
    ELSE [outcome |-> IF failed THEN "error" ELSE "completed", content |-> k.chunks]

\* The outer finally: a record, and whatever comes of it, the end of activity.
Finish(c, k) ==
    /\ call' = [call EXCEPT ![c] = [k EXCEPT !.at = "ended", !.out = <<>>,
                                             !.record = Recorded(k, k.error \/ k.status >= 400)]]
    /\ EndActivity(CallOf[c])
    /\ UNCHANGED <<released, shut>>

Go(c, k) == call' = [call EXCEPT ![c] = k] /\ UNCHANGED <<activity, released, shut>>

-----------------------------------------------------------------------------
(* A streamed call.                                                          *)

Open(c) ==
    /\ c \in Streamed /\ call[c].at = "new"
    /\ call' = [call EXCEPT ![c].at = "opened"]
    /\ activity' = [activity EXCEPT ![CallOf[c]] = @ + 1]
    /\ UNCHANGED <<released, shut>>

\* The client is gone before the server asks for the first piece: a generator
\* that was never started has no finally.
NeverRead(c) ==
    /\ call[c].at = "opened"
    /\ Go(c, [call[c] EXCEPT !.at = "unread", !.gone = TRUE])

Connect(c) ==
    /\ call[c].at = "opened"
    /\ \E r \in Replies[c] :
          Go(c, [call[c] EXCEPT !.at = "reading", !.reply = r, !.status = r.status])

\* A chunk: some half events more.  Whole events are yielded together.
Chunk(c) ==
    LET k == call[c] IN
    /\ k.at = "reading"
    /\ \E n \in k.read + 1 .. 2 * Len(k.reply.events) :
          LET t == Take([k EXCEPT !.read = n, !.cut = CutTo(k, n)], Whole(k, n)) IN
          Go(c, [t EXCEPT !.at = IF t.out = <<>> THEN "reading" ELSE "yielding"])

\* The provider has ended its answer, maybe early.  What is left in the buffer is
\* an event if only its blank line is missing, and is skipped if it is a part.
UpstreamEnds(c) ==
    LET k == call[c]
        \* nothing, or the event that was begun
        Left == {<<>>} \cup (IF k.read % 2 = 1 THEN {<<k.reply.events[k.cut + 1]>>} ELSE {}) IN
    /\ k.at = "reading"
    /\ \E left \in Left :
          LET t == Take(k, Merged(left)) IN
          Go(c, [t EXCEPT !.at = IF t.out = <<>> THEN "concluding" ELSE "flushing"])

\* No connection, a connection that breaks, an event that is no object.
UpstreamFails(c) ==
    /\ call[c].at \in {"opened", "reading"}
    /\ Go(c, [call[c] EXCEPT !.at = "failing", !.status = 502, !.error = TRUE, !.out = <<"error">>])

\* The else branch: a refusal or an empty answer becomes an error event, and a
\* marker is passed on at last.
Refused(k) == k.status >= 400 \/ ~HasPayload(k.chunks)

Conclude(c) ==
    LET k == call[c] IN
    /\ k.at = "concluding"
    /\ IF ~k.error /\ Refused(k)
       THEN Go(c, [k EXCEPT !.at = "closing", !.error = TRUE, !.done = FALSE,
                            !.out = <<"error", "done">>])
       ELSE IF ~k.error /\ k.done
            THEN Go(c, [k EXCEPT !.at = "closing", !.out = <<"done">>])
            ELSE Finish(c, k)

\* The client has taken what was yielded and asks for more.
Delivered(c) ==
    LET k == call[c]
        d == [k EXCEPT !.got = @ \o k.out, !.out = <<>>] IN
    \/ k.at = "yielding" /\ Go(c, [d EXCEPT !.at = "reading"])
    \/ k.at = "flushing" /\ Go(c, [d EXCEPT !.at = "concluding"])
    \/ k.at \in {"failing", "closing"} /\ Finish(c, d)

\* The client goes away, or the server stops.  After the body of the answer the
\* outcome stands.
Cancel(c) ==
    LET k == [call[c] EXCEPT !.gone = TRUE] IN
    \/ k.at \in {"reading", "yielding", "flushing"}
       /\ Finish(c, [k EXCEPT !.status = 499, !.error = TRUE])
    \/ k.at \in {"failing", "closing"} /\ Finish(c, k)

-----------------------------------------------------------------------------
(* A call that is not streamed is answered at once, and counts as no activity. *)

Ask(c) ==
    /\ c \notin Streamed /\ call[c].at = "new"
    /\ Go(c, [call[c] EXCEPT !.at = "asked"])

\* Of a failure that has no message, the record says nothing.
AskFails(c) ==
    /\ call[c].at = "asked"
    /\ \E silent \in BOOLEAN :
          Go(c, [call[c] EXCEPT !.at = "ended", !.got = <<"error">>, !.status = 502,
                                !.error = ~silent, !.record = Recorded(call[c], ~silent)])

Reply(c) ==
    /\ call[c].at = "asked"
    /\ \E r \in Replies[c] :
          LET k == [call[c] EXCEPT !.reply = r, !.status = r.status, !.chunks = Merged(Data(r.events))]
              failed == Refused(k) IN
          Go(c, [k EXCEPT !.at = "ended", !.error = failed,
                          !.got = IF failed THEN <<"error">> ELSE k.chunks,
                          !.record = Recorded(k, failed)])

-----------------------------------------------------------------------------
(* The runtime is forgotten, whatever runs; the trace writer closes.          *)

Release(r) ==
    /\ r \notin released
    /\ released' = released \cup {r}
    /\ activity' = [activity EXCEPT ![r] = 0]
    /\ UNCHANGED <<call, shut>>

Shut == ~shut /\ shut' = TRUE /\ UNCHANGED <<call, activity, released>>

Next == \/ \E c \in Calls :
              \/ Open(c) \/ NeverRead(c) \/ Connect(c) \/ Chunk(c) \/ UpstreamEnds(c)
              \/ UpstreamFails(c) \/ Conclude(c) \/ Delivered(c) \/ Cancel(c)
              \/ Ask(c) \/ AskFails(c) \/ Reply(c)
        \/ \E r \in Runtimes : Release(r)
        \/ Shut

Spec == Init /\ [][Next]_vars

-----------------------------------------------------------------------------
(* Properties.                                                               *)

\* "A disconnected downstream or cancelled request is not a completed model
\* response": a call is recorded as completed only if its client got what was
\* recorded, which has a payload and no error, and as failed only if its client
\* was told so or had gone.  A failure without a message is the exception, see
\* AskFails.
Silent(k) == k.status = 502 /\ ~k.error
Truthful(c) ==
    LET k == call[c] IN
    k.record.outcome = "completed" /\ ~Silent(k) =>
        /\ k.status < 400 /\ HasPayload(k.got) /\ "error" \notin ToSet(k.got)
        /\ Data(k.got) = k.record.content
Admitted(c) ==
    LET k == call[c] IN k.record.outcome = "error" => k.gone \/ "error" \in ToSet(k.got)

\* However the bytes are split, the record has every event once and in order.
Faithful(c) ==
    LET k == call[c] IN
    k.record.outcome # "none" => IsPrefix(k.record.content, Merged(Data(k.reply.events)))

\* While a runtime that was not released counts no activity, each of its streams
\* has left its record: a drain or an abort that is let through misses none.
UnderWay(k) == k.at \notin {"new", "ended"}
IdleIsRecorded ==
    \A r \in Runtimes \ released : activity[r] = 0 =>
        \A c \in Streamed : CallOf[c] = r => ~UnderWay(call[c])

CapturedAsAnswered == IdleIsRecorded /\ \A c \in Calls : Truthful(c) /\ Admitted(c) /\ Faithful(c)

=============================================================================
