------------------------------ MODULE PluginTrace ------------------------------
(***************************************************************************)
(* The plugin's hooks and its own trace (index.ts, trace/registry.ts,         *)
(* trace/run-writer-manager.ts, trace/writer.ts).  A hook begins a span, gets  *)
(* the writer of its run, which may have to be opened first, and asks the     *)
(* sidecar; agent_end interrupts the spans that are left and closes the run's *)
(* writers.  Tool and model calls differ only in what they send.              *)
(*                                                                           *)
(* Node runs one callback at a time: what follows an await is a step of its   *)
(* own, and everyone who awaits a writer goes on when it opens, in order.     *)
(* The code relies on agent_end coming after the run's completion hooks       *)
(* (run-writer-manager.ts:147); AgentEnd's guard is that assumption.          *)
(***************************************************************************)
EXTENDS Naturals

CONSTANTS Calls, Runs,
          RunOf,       \* call -> its run
          Writers,     \* one per run and agent-id variant
          WriterOf     \* call -> its writer

TraceAssumption ==
    /\ \A c \in Calls : RunOf[c] \in Runs /\ WriterOf[c] \in Writers
    /\ \A c, d \in Calls : WriterOf[c] = WriterOf[d] => RunOf[c] = RunOf[d]

VARIABLES
    hook,      \* call -> where its hooks are
    active,    \* spans the registry has open
    linked,    \* calls with an entry in the CorrelationMap
    creating,  \* writer -> creations in flight
    handles,   \* writer -> open file handles
    broken,    \* writers whose file could not be opened: records are dropped
    starts, ends,   \* call -> records of its span
    fin,       \* run -> "no", "interrupt", "closing", "done"
    todo,      \* run -> spans agent_end still has to interrupt
    down       \* the plugin has shut down

files == <<creating, handles, broken>>
vars == <<hook, active, linked, files, starts, ends, fin, todo, down>>

Init ==
    /\ hook = [c \in Calls |-> "idle"] /\ active = {} /\ linked = {}
    /\ creating = [w \in Writers |-> 0] /\ handles = [w \in Writers |-> 0] /\ broken = {}
    /\ starts = [c \in Calls |-> 0] /\ ends = [c \in Calls |-> 0]
    /\ fin = [r \in Runs |-> "no"] /\ todo = [r \in Runs |-> {}] /\ down = FALSE

TypeOK ==
    /\ hook \in [Calls -> {"idle", "start", "ask", "called", "blocked", "tell", "end", "done"}]
    /\ active \subseteq Calls /\ linked \subseteq Calls /\ broken \subseteq Writers
    /\ fin \in [Runs -> {"no", "interrupt", "closing", "done"}]
    /\ \A r \in Runs : todo[r] \subseteq {c \in Calls : RunOf[c] = r}

Of(r) == {c \in Calls : RunOf[c] = r}
WritersOf(r) == {WriterOf[c] : c \in Of(r)}

\* TraceWriter.writeRecord: a writer without a handle drops the record.
Written(count, c) == IF WriterOf[c] \in broken THEN count ELSE [count EXCEPT ![c] = @ + 1]

\* RunWriterManager.get: the promise of a creation in flight is shared.
Creates(w) == handles[w] = 0 /\ creating[w] = 0
Get(w) == creating' = [creating EXCEPT ![w] = IF Creates(w) THEN @ + 1 ELSE @]

-----------------------------------------------------------------------------
(* before_tool_call, model_call_started.                                    *)

Begin(c) ==
    LET w == WriterOf[c] IN
    /\ ~down /\ hook[c] = "idle" /\ fin[RunOf[c]] = "no"
    /\ active' = active \cup {c} /\ Get(w)
    /\ IF handles[w] > 0
       THEN hook' = [hook EXCEPT ![c] = "ask"] /\ starts' = Written(starts, c)
       ELSE hook' = [hook EXCEPT ![c] = "start"] /\ UNCHANGED starts
    /\ UNCHANGED <<linked, handles, broken, ends, fin, todo, down>>

\* createEntry ends, with a file or without; the hooks that wait write in order.
Opened(w) ==
    /\ ~down /\ creating[w] > 0
    /\ creating' = [creating EXCEPT ![w] = @ - 1]
    /\ handles' = [handles EXCEPT ![w] = @ + 1]
    /\ broken' \in {broken, broken \cup {w}}
    /\ LET Waiting(at) == {c \in Calls : WriterOf[c] = w /\ hook[c] = at} IN
       /\ hook' = [c \in Calls |-> IF c \in Waiting("start") THEN "ask"
                                  ELSE IF c \in Waiting("end") THEN "done" ELSE hook[c]]
       /\ starts' = [c \in Calls |-> starts[c] +
                        (IF c \in Waiting("start") /\ w \notin broken' THEN 1 ELSE 0)]
       /\ ends' = [c \in Calls |-> ends[c] +
                        (IF c \in Waiting("end") /\ w \notin broken' THEN 1 ELSE 0)]
    /\ UNCHANGED <<active, linked, fin, todo, down>>

\* The decision and the registration, each with its retries; without a sidecar
\* the mode decides whether the call runs.
Ask(c) ==
    /\ ~down /\ hook[c] = "ask"
    /\ \/ hook' = [hook EXCEPT ![c] = "called"] /\ linked' \in {linked, linked \cup {c}}
       \/ hook' = [hook EXCEPT ![c] = "blocked"] /\ UNCHANGED linked
    /\ UNCHANGED <<active, files, starts, ends, fin, todo, down>>

-----------------------------------------------------------------------------
(* after_tool_call, model_call_ended.                                       *)

\* Mutant: the span is ended when its record is written.
TakenLater(c) == active
Taken(c) == active \ {c}

Finish(c) ==
    /\ ~down /\ hook[c] = "called" /\ fin[RunOf[c]] = "no"
    /\ hook' = [hook EXCEPT ![c] = "tell"]
    /\ active' = Taken(c) /\ linked' = linked \ {c}
    /\ UNCHANGED <<files, starts, ends, fin, todo, down>>

\* The scope, the report and the telemetry: three calls that may fail, and
\* none of them keeps the record from being written.
Tell(c) ==
    LET w == WriterOf[c] IN
    /\ ~down /\ hook[c] = "tell" /\ Get(w)
    /\ IF handles[w] > 0
       THEN hook' = [hook EXCEPT ![c] = "done"] /\ ends' = Written(ends, c)
       ELSE hook' = [hook EXCEPT ![c] = "end"] /\ UNCHANGED ends
    /\ UNCHANGED <<active, linked, handles, broken, starts, fin, todo, down>>

-----------------------------------------------------------------------------
(* agent_end, session_end, shutdown.                                        *)

\* finalizeRunTrace: clearRunsWhere, for every agent-id variant of the run.
AgentEnd(r) ==
    /\ ~down /\ fin[r] = "no"
    /\ \A c \in Of(r) : hook[c] \notin {"tell", "end"}
    /\ todo' = [todo EXCEPT ![r] = active \cap Of(r)] /\ active' = active \ Of(r)
    /\ fin' = [fin EXCEPT ![r] = "interrupt"]
    /\ UNCHANGED <<hook, linked, files, starts, ends, down>>

Interrupt(r) ==
    /\ ~down /\ fin[r] = "interrupt"
    /\ \/ \E c \in todo[r] :
          LET w == WriterOf[c] IN
          IF handles[w] > 0
          THEN /\ ends' = Written(ends, c) /\ todo' = [todo EXCEPT ![r] = @ \ {c}]
               /\ UNCHANGED <<creating, fin>>
          ELSE Creates(w) /\ Get(w) /\ UNCHANGED <<ends, todo, fin>>
       \/ /\ todo[r] = {} /\ fin' = [fin EXCEPT ![r] = "closing"]
          /\ UNCHANGED <<creating, ends, todo>>
    /\ UNCHANGED <<hook, active, linked, handles, broken, starts, down>>

\* closeWhere
Settled(ws) == \A w \in ws : creating[w] = 0

CloseRun(r) ==
    /\ ~down /\ fin[r] = "closing" /\ Settled(WritersOf(r))
    /\ handles' = [w \in Writers |-> IF w \in WritersOf(r) /\ handles[w] > 0
                                     THEN handles[w] - 1 ELSE handles[w]]
    /\ broken' = broken \ WritersOf(r)
    /\ fin' = [fin EXCEPT ![r] = "done"]
    /\ UNCHANGED <<hook, active, linked, creating, starts, ends, todo, down>>

\* finalizeSessionTrace, where every run has ended, and shutdown: the spans
\* left are interrupted if the sidecar stopped cleanly; then all is released.
Shutdown ==
    /\ ~down /\ Settled(Writers) /\ down' = TRUE
    /\ ends' \in {ends, [c \in Calls |-> IF c \in active THEN Written(ends, c)[c] ELSE ends[c]]}
    /\ active' = {} /\ handles' = [w \in Writers |-> 0] /\ broken' = {}
    /\ UNCHANGED <<hook, linked, creating, starts, fin, todo>>

Next ==
    \/ \E c \in Calls : Begin(c) \/ Ask(c) \/ Finish(c) \/ Tell(c)
    \/ \E w \in Writers : Opened(w)
    \/ \E r \in Runs : AgentEnd(r) \/ Interrupt(r) \/ CloseRun(r)
    \/ Shutdown

Spec == Init /\ [][Next]_vars

-----------------------------------------------------------------------------
(* Properties.                                                              *)

\* A run ends clean.  A span never has two ends, and when its run was finalised a span whose start
\* was written has its end: completed by its hook or interrupted by agent_end;
\* and it leaves no file handle, and none to come.
RunsEndClean ==
    /\ \A c \in Calls : ends[c] <= 1
    /\ \A c \in Calls : fin[RunOf[c]] = "done" => ends[c] = starts[c]
    /\ \A r \in Runs : fin[r] = "done" =>
          \A w \in WritersOf(r) : handles[w] = 0 /\ creating[w] = 0

=============================================================================
