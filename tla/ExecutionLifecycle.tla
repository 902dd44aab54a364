------------------------- MODULE ExecutionLifecycle -------------------------
(***************************************************************************)
(* The measurement of the executions of one runtime (api/app.py): the       *)
(* asyncio tasks that start the eBPF collector of an execution, finish it   *)
(* when the launcher's exit, the completion hook, an expired grace period   *)
(* or the abort of the runtime asks for it, and remove the cgroup that the  *)
(* sidecar owns.  The tasks of one event loop interleave where they await;  *)
(* the predictor's begin_execution and finish_execution run in threads.     *)
(* Leases are the subject of Admission, learning that of KbWriter.          *)
(***************************************************************************)
EXTENDS Naturals, FiniteSets

CONSTANTS Executions,   \* executions of the runtime
          Owning,       \* those for which a cgroup can be created
          Yielding,     \* those whose tool may yield a background process
          Marked,       \* those of the marker backend, which no launcher claims
          Hooked,       \* those whose completion hook may arrive
          Nobody,       \* no execution
          MaxReports    \* bound: how often a launcher posts its exit report

ASSUME LifecycleAssumption ==
    /\ Owning \subseteq Executions /\ Yielding \subseteq Executions
    /\ Marked \subseteq Executions /\ Hooked \subseteq Executions
    /\ Nobody \notin Executions
    /\ MaxReports \in Nat \ {0}

VARIABLES
    record,      \* "none", "marker" or "claimed", then "completed" (exited without
                 \* status), "reported" (with the launcher's status), "swept"
    yielding,    \* executions whose completion reports a process that still runs
    reports,     \* exit reports the sidecar has handled
    process,     \* "launching", "running" (the gated root included), "gone"
    cgroup,      \* the owned cgroup: "none", "present", "removed"
    starting,    \* starting_tasks: "none", "thread", "registered" (not yet published)
    run,         \* _runs_by_execution_id: an unfinished collector
    summary,     \* its telemetry: "none", "failed", "started", "final"
    finishing,   \* finishing_tasks: "none", "created", "waiting", "thread", "stopping"
    evidence,    \* executions whose finishing task was given the launcher's status
    fallback,    \* _ebpf_finalize_tasks: "none", "grace", "finish"
    gc,          \* _owned_cgroup_cleanup_tasks: "none", "grace", "removing"
    completion,  \* progress of the completion handler
    scan,        \* executions a sandbox-scope handler has still to start
    scanning,    \* the one whose start it awaits
    closed,      \* the runtime is in _closed_runtimes
    abort,       \* progress of the runtime's abort task
    targets,     \* runtime_abort_execution_ids
    left,        \* targets the abort task has still to deal with
    victim,      \* the target whose collector it awaits
    drained,     \* the last drain found the runtime idle, nothing begun since
    measured     \* history: how often the collector was finished

collector == <<starting, run, summary, finishing, evidence, measured>>
tasks == <<fallback, gc>>
scope == <<scan, scanning>>
aborting == <<closed, abort, targets, left, victim>>
launcher == <<yielding, reports, process>>
vars == <<record, launcher, cgroup, collector, tasks, completion, scope, aborting, drained>>

InHandler == {"orphan", "finish", "measured", "removing"}

LauncherTypeOK ==
    /\ record \in [Executions -> {"none", "marker", "claimed", "completed", "reported", "swept"}]
    /\ yielding \subseteq Yielding
    /\ reports \in [Executions -> 0 .. MaxReports]
    /\ process \in [Executions -> {"launching", "running", "gone"}]
    /\ cgroup \in [Executions -> {"none", "present", "removed"}]

CollectorTypeOK ==
    /\ starting \in [Executions -> {"none", "thread", "registered"}]
    /\ run \in [Executions -> BOOLEAN]
    /\ summary \in [Executions -> {"none", "failed", "started", "final"}]
    /\ finishing \in [Executions -> {"none", "created", "waiting", "thread", "stopping"}]
    /\ evidence \subseteq Executions
    /\ measured \in [Executions -> Nat]

TaskTypeOK ==
    /\ fallback \in [Executions -> {"none", "grace", "finish"}]
    /\ gc \in [Executions -> {"none", "grace", "removing"}]
    /\ completion \in [Executions -> {"none", "done", "failed"} \cup InHandler]

RuntimeTypeOK ==
    /\ scan \subseteq Executions /\ scanning \in Executions \cup {Nobody}
    /\ scan # {} => scanning # Nobody
    /\ closed \in BOOLEAN
    /\ abort \in {"none", "collect", "next", "wait", "done", "failed", "broken"}
    /\ targets \subseteq Executions /\ left \subseteq targets
    /\ victim \in Executions \cup {Nobody} /\ (victim # Nobody <=> abort = "wait")
    /\ drained \in BOOLEAN

TypeOK == LauncherTypeOK /\ CollectorTypeOK /\ TaskTypeOK /\ RuntimeTypeOK

Init ==
    /\ record = [e \in Executions |-> "none"]
    /\ yielding \in SUBSET Yielding
    /\ reports = [e \in Executions |-> 0]
    /\ process = [e \in Executions |-> "launching"]
    /\ cgroup = [e \in Executions |-> "none"]
    /\ starting = [e \in Executions |-> "none"]
    /\ run = [e \in Executions |-> FALSE]
    /\ summary = [e \in Executions |-> "none"]
    /\ finishing = [e \in Executions |-> "none"]
    /\ evidence = {}
    /\ fallback = [e \in Executions |-> "none"]
    /\ gc = [e \in Executions |-> "none"]
    /\ completion = [e \in Executions |-> "none"]
    /\ scan = {} /\ scanning = Nobody
    /\ closed = FALSE /\ abort = "none" /\ targets = {} /\ left = {} /\ victim = Nobody
    /\ drained = FALSE
    /\ measured = [e \in Executions |-> 0]

Known(e) == record[e] \in {"marker", "claimed", "completed", "reported"}
HasExited(e) == record[e] \in {"completed", "reported"}
Active == {e \in Executions : record[e] = "claimed"}

\* ebpf_needs_finalization
NeedsFinalization(e) == starting[e] # "none" \/ finishing[e] # "none" \/ run[e]

\* mark_completed
MarkCompleted(e) ==
    record' = [record EXCEPT ![e] = IF @ \in {"marker", "claimed"} THEN "completed" ELSE @]

-----------------------------------------------------------------------------
(* Building blocks of the handlers.                                         *)

\* begin_ebpf_for_record: one starting task per execution.
BeginEbpf(e) ==
    starting' = [starting EXCEPT ![e] = IF @ = "none" THEN "thread" ELSE @]

\* finish_ebpf: one finishing task per execution, joined by whoever comes later.
JoinFinish(e, known) ==
    IF finishing[e] = "none"
    THEN /\ finishing' = [finishing EXCEPT ![e] = "created"]
         /\ evidence' = IF known THEN evidence \cup {e} ELSE evidence \ {e}
    ELSE UNCHANGED <<finishing, evidence>>

CancelFallback(e) == fallback' = [fallback EXCEPT ![e] = "none"]

\* schedule_owned_cgroup_cleanup, which does nothing without an owned path.
ScheduleCleanup(e) ==
    gc' = [gc EXCEPT ![e] = IF cgroup[e] = "present" THEN "grace" ELSE @]

\* _cleanup_owned_cgroup only removes a cgroup without processes.
Removable(e) == process[e] # "running"
Removed(e) == [cgroup EXCEPT ![e] = IF @ = "present" THEN "removed" ELSE @]

-----------------------------------------------------------------------------
(* The launcher and the sandbox-scope handler.                              *)

\* Registration of a marker execution, whose command runs in the container.
RegisterMarker(e) ==
    /\ e \in Marked
    /\ record[e] = "none"
    /\ ~closed
    /\ record' = [record EXCEPT ![e] = "marker"]
    /\ process' = [process EXCEPT ![e] = "running"]
    /\ BeginEbpf(e) \/ UNCHANGED starting
    /\ drained' = FALSE
    /\ UNCHANGED <<yielding, reports, cgroup, run, summary, finishing, evidence, measured,
                   tasks, completion, scope, aborting>>

Claim(e) ==
    /\ e \notin Marked
    /\ record[e] = "none"
    /\ ~closed
    /\ record' = [record EXCEPT ![e] = "claimed"]
    /\ BeginEbpf(e) \/ UNCHANGED starting
    /\ drained' = FALSE
    /\ UNCHANGED <<launcher, cgroup, run, summary, finishing, evidence, measured, tasks,
                   completion, scope, aborting>>

Started(e) ==
    /\ Known(e) /\ e \notin Marked
    /\ process[e] = "launching"
    /\ ~closed
    /\ process' = [process EXCEPT ![e] = "running"]
    /\ cgroup' \in {cgroup} \cup {[cgroup EXCEPT ![e] = "present"] : o \in Owning \cap {e}}
    /\ BeginEbpf(e) \/ UNCHANGED starting
    /\ drained' = FALSE
    /\ UNCHANGED <<record, yielding, reports, run, summary, finishing, evidence, measured, tasks,
                   completion, scope, aborting>>

ProcessEnds(e) ==
    /\ process[e] # "gone"
    /\ record[e] # "none"
    /\ process' = [process EXCEPT ![e] = "gone"]
    /\ UNCHANGED <<record, yielding, reports, cgroup, collector, tasks, completion, scope,
                   aborting, drained>>

\* The launcher's report starts the grace period of the completion hook.  It is
\* repeated when its answer was lost, and does not ask whether it is the first.
Exited(e) ==
    /\ Known(e) /\ e \notin Marked
    /\ process[e] = "gone"
    /\ reports[e] < MaxReports
    /\ ~closed
    /\ reports' = [reports EXCEPT ![e] = @ + 1]
    /\ record' = [record EXCEPT ![e] = "reported"]
    /\ fallback' = IF NeedsFinalization(e) THEN [fallback EXCEPT ![e] = "grace"] ELSE fallback
    /\ ScheduleCleanup(e)
    /\ drained' = FALSE
    /\ UNCHANGED <<yielding, process, cgroup, collector, completion, scope, aborting>>

\* store_sandbox_scope lists the active executions and the marker ones ...
Startable == Active \cup {e \in Executions : record[e] = "marker"}

ScanBegin(e) ==
    /\ scanning = Nobody
    /\ e \in Startable
    /\ ~closed
    /\ scan' = Startable \ {e}
    /\ scanning' = e
    /\ BeginEbpf(e)
    /\ drained' = FALSE
    /\ UNCHANGED <<record, launcher, cgroup, run, summary, finishing, evidence, measured,
                   tasks, completion, aborting>>

\* ... and starts them one after the other.
ScanNext(e) ==
    /\ scanning # Nobody /\ starting[scanning] = "none"
    /\ e \in scan
    /\ ~closed
    /\ scan' = scan \ {e}
    /\ IF Known(e) THEN scanning' = e /\ BeginEbpf(e) /\ drained' = FALSE
                   ELSE UNCHANGED <<scanning, starting, drained>>
    /\ UNCHANGED <<record, launcher, cgroup, run, summary, finishing, evidence, measured,
                   tasks, completion, aborting>>

ScanEnd ==
    /\ scanning # Nobody /\ starting[scanning] = "none"
    /\ scan = {} \/ closed
    /\ scan' = {} /\ scanning' = Nobody
    /\ UNCHANGED <<record, launcher, cgroup, collector, tasks, completion, aborting, drained>>

\* _sweep forgets an exited record after 300 s and a marker after an hour.  Timing
\* assumption: every task of the execution but the garbage collection of an active
\* collector's cgroup takes less than that.
Sweep(e) ==
    /\ HasExited(e) \/ record[e] = "marker"
    /\ starting[e] = "none" /\ finishing[e] = "none" /\ fallback[e] = "none"
    /\ completion[e] \notin InHandler
    /\ gc[e] = "none" \/ run[e]
    /\ record' = [record EXCEPT ![e] = "swept"]
    /\ UNCHANGED <<launcher, cgroup, collector, tasks, completion, scope, aborting, drained>>

-----------------------------------------------------------------------------
(* begin_execution and the starting task.                                   *)

\* Mutant: the summary of an earlier collector is not asked.
MayRestart(e) == ~run[e]

\* A collector that is active or was started before is not started again.
MayStart(e) == ~run[e] /\ summary[e] \in {"none", "failed"}

\* The end of the starting task lets the finishing task go on.
StartDone(e) ==
    /\ starting' = [starting EXCEPT ![e] = "none"]
    /\ finishing' = [finishing EXCEPT ![e] = IF @ = "waiting" THEN "thread" ELSE @]

StartSkipped(e) ==
    /\ starting[e] = "thread"
    /\ ~MayStart(e)
    /\ StartDone(e)
    /\ UNCHANGED <<record, launcher, cgroup, run, summary, evidence, measured, tasks,
                   completion, scope, aborting, drained>>

StartRegisters(e) ==
    /\ starting[e] = "thread"
    /\ MayStart(e)
    /\ starting' = [starting EXCEPT ![e] = "registered"]
    /\ run' = [run EXCEPT ![e] = TRUE]
    /\ UNCHANGED <<record, launcher, cgroup, summary, finishing, evidence, measured, tasks,
                   completion, scope, aborting, drained>>

StartFails(e) ==
    /\ starting[e] = "thread"
    /\ MayStart(e)
    /\ summary' = [summary EXCEPT ![e] = "failed"]
    /\ StartDone(e)
    /\ UNCHANGED <<record, launcher, cgroup, run, evidence, measured, tasks, completion,
                   scope, aborting, drained>>

\* The placeholder summary is published after the run, without a lock.
StartPublishes(e) ==
    /\ starting[e] = "registered"
    /\ summary' = [summary EXCEPT ![e] = "started"]
    /\ StartDone(e)
    /\ UNCHANGED <<record, launcher, cgroup, run, evidence, measured, tasks, completion,
                   scope, aborting, drained>>

Start(e) == StartSkipped(e) \/ StartRegisters(e) \/ StartFails(e) \/ StartPublishes(e)

-----------------------------------------------------------------------------
(* The finishing task and finish_execution.                                 *)

FinishBegins(e) ==
    /\ finishing[e] = "created"
    /\ finishing' = [finishing EXCEPT ![e] =
                       IF starting[e] = "none" THEN "thread" ELSE "waiting"]
    /\ UNCHANGED <<record, launcher, cgroup, starting, run, summary, evidence, measured,
                   tasks, completion, scope, aborting, drained>>

\* Popping the run decides who finishes it.
FinishPops(e) ==
    /\ finishing[e] = "thread"
    /\ run' = [run EXCEPT ![e] = FALSE]
    /\ finishing' = [finishing EXCEPT ![e] = IF run[e] THEN "stopping" ELSE "none"]
    /\ summary' = [summary EXCEPT ![e] = IF ~run[e] /\ @ = "none" THEN "failed" ELSE @]
    /\ UNCHANGED <<record, launcher, cgroup, starting, evidence, measured, tasks,
                   completion, scope, aborting, drained>>

\* finish_command has returned or raised: the final summary is published.
FinishStops(e) ==
    /\ finishing[e] = "stopping"
    /\ finishing' = [finishing EXCEPT ![e] = "none"]
    /\ summary' = [summary EXCEPT ![e] = "final"]
    /\ measured' = [measured EXCEPT ![e] = @ + 1]
    /\ UNCHANGED <<record, launcher, cgroup, starting, run, evidence, tasks, completion,
                   scope, aborting, drained>>

Finish(e) == FinishBegins(e) \/ FinishPops(e) \/ FinishStops(e)

-----------------------------------------------------------------------------
(* Delayed tasks.                                                           *)

\* finalize_ebpf_after_grace
FallbackFires(e) ==
    /\ fallback[e] = "grace"
    /\ fallback' = [fallback EXCEPT ![e] = "finish"]
    /\ JoinFinish(e, record[e] = "reported")
    /\ UNCHANGED <<record, launcher, cgroup, starting, run, summary, measured, gc,
                   completion, scope, aborting, drained>>

FallbackEnds(e) ==
    /\ fallback[e] = "finish"
    /\ finishing[e] = "none"
    /\ CancelFallback(e)
    /\ UNCHANGED <<record, launcher, cgroup, collector, gc, completion, scope, aborting, drained>>

\* cleanup_owned_cgroup_after_grace waits for the collector, then tries at once ...
GcFires(e) ==
    /\ gc[e] = "grace"
    /\ ~NeedsFinalization(e) /\ fallback[e] = "none"
    /\ IF Removable(e)
       THEN cgroup' = Removed(e) /\ gc' = [gc EXCEPT ![e] = "none"]
       ELSE gc' = [gc EXCEPT ![e] = "removing"] /\ UNCHANGED cgroup
    /\ UNCHANGED <<record, launcher, collector, fallback, completion, scope, aborting, drained>>

\* ... and a few times more.
GcRetries(e) ==
    /\ gc[e] = "removing"
    /\ IF Removable(e)
       THEN cgroup' = Removed(e) /\ gc' = [gc EXCEPT ![e] = "none"]
       ELSE gc' = [gc EXCEPT ![e] = "grace"] /\ UNCHANGED cgroup
    /\ UNCHANGED <<record, launcher, collector, fallback, completion, scope, aborting, drained>>

Delayed(e) == FallbackFires(e) \/ FallbackEnds(e) \/ GcFires(e) \/ GcRetries(e)

-----------------------------------------------------------------------------
(* The completion handler.                                                  *)

\* finish_ebpf_from_completion
FinishFromCompletion(e, known) ==
    /\ CancelFallback(e)
    /\ JoinFinish(e, known)
    /\ completion' = [completion EXCEPT ![e] = "finish"]

\* Mutant: the fallback is cancelled together with the garbage collection.
BeginCancelsBoth(e) ==
    /\ completion[e] = "none"
    /\ e \in Hooked /\ record[e] # "none"
    /\ e \in yielding => process[e] # "launching"
    /\ ~closed
    /\ gc' = [gc EXCEPT ![e] = "none"] /\ CancelFallback(e)
    /\ IF e \notin yielding /\ HasExited(e)
       THEN FinishFromCompletion(e, record[e] = "reported")
       ELSE /\ completion' = [completion EXCEPT ![e] =
                  IF e \notin yielding /\ NeedsFinalization(e) THEN "orphan" ELSE "measured"]
            /\ UNCHANGED <<finishing, evidence>>
    /\ drained' = FALSE
    /\ UNCHANGED <<record, launcher, cgroup, starting, run, summary, measured, scope, aborting>>

\* The handler cancels the garbage collection and decides on the collector
\* (finalize_ebpf_from_completion) before its first await.
BeginCompletion(e) ==
    /\ completion[e] = "none"
    /\ e \in Hooked /\ record[e] # "none"
    /\ e \in yielding => process[e] # "launching"
    /\ ~closed
    /\ gc' = [gc EXCEPT ![e] = "none"]
    /\ IF e \notin yielding /\ HasExited(e)
       THEN FinishFromCompletion(e, record[e] = "reported")
       ELSE /\ completion' = [completion EXCEPT ![e] =
                  IF e \notin yielding /\ NeedsFinalization(e) THEN "orphan" ELSE "measured"]
            /\ UNCHANGED <<fallback, finishing, evidence>>
    /\ drained' = FALSE
    /\ UNCHANGED <<record, launcher, cgroup, starting, run, summary, measured, scope, aborting>>

\* Mutant: the record is not read again after the wait.
OrphanUsesOldRecord(e) ==
    /\ completion[e] = "orphan"
    /\ IF HasExited(e) \/ NeedsFinalization(e)
       THEN FinishFromCompletion(e, FALSE)
       ELSE /\ completion' = [completion EXCEPT ![e] = "measured"]
            /\ UNCHANGED <<fallback, finishing, evidence>>
    /\ UNCHANGED <<record, launcher, cgroup, starting, run, summary, measured, gc, scope,
                   aborting, drained>>

\* After the second it grants to a late exit report, it looks again.
OrphanEnds(e) ==
    /\ completion[e] = "orphan"
    /\ IF HasExited(e) \/ NeedsFinalization(e)
       THEN FinishFromCompletion(e, record[e] = "reported")
       ELSE /\ completion' = [completion EXCEPT ![e] = "measured"]
            /\ UNCHANGED <<fallback, finishing, evidence>>
    /\ UNCHANGED <<record, launcher, cgroup, starting, run, summary, measured, gc, scope,
                   aborting, drained>>

CollectorFinished(e) ==
    /\ completion[e] = "finish"
    /\ finishing[e] = "none"
    /\ completion' = [completion EXCEPT ![e] = "measured"]
    /\ UNCHANGED <<record, launcher, cgroup, collector, tasks, scope, aborting, drained>>

\* mark_completed and the first attempt of cleanup_owned_cgroup ...
MarksCompleted(e) ==
    /\ completion[e] = "measured"
    /\ MarkCompleted(e)
    /\ completion' = [completion EXCEPT ![e] = "removing"]
    /\ cgroup' = IF Removable(e) THEN Removed(e) ELSE cgroup
    /\ UNCHANGED <<launcher, collector, tasks, scope, aborting, drained>>

\* ... whose later attempts are followed by a new garbage collection.
CompletionRemoves(e) ==
    /\ completion[e] = "removing"
    /\ completion' = [completion EXCEPT ![e] = "done"]
    /\ IF Removable(e) THEN cgroup' = Removed(e) /\ UNCHANGED gc
                       ELSE ScheduleCleanup(e) /\ UNCHANGED cgroup
    /\ UNCHANGED <<record, launcher, collector, fallback, scope, aborting, drained>>

\* An exception or a disconnected client restores what the handler cancelled.
FailCompletion(e) ==
    /\ completion[e] \in InHandler
    /\ \E result \in (IF completion[e] = "removing" THEN {} ELSE {"none"})
                   \cup (IF completion[e] \in {"measured", "removing"} THEN {"failed"} ELSE {}) :
          completion' = [completion EXCEPT ![e] = result]
    /\ IF HasExited(e) THEN ScheduleCleanup(e) ELSE UNCHANGED gc
    /\ fallback' = IF HasExited(e) /\ NeedsFinalization(e)
                   THEN [fallback EXCEPT ![e] = "grace"] ELSE fallback
    /\ UNCHANGED <<record, launcher, cgroup, collector, scope, aborting, drained>>

Completion(e) == \/ BeginCompletion(e) \/ OrphanEnds(e) \/ CollectorFinished(e) \/ MarksCompleted(e)
                 \/ CompletionRemoves(e) \/ FailCompletion(e)

-----------------------------------------------------------------------------
(* Abort and drain of the runtime.                                          *)

\* A request in progress, a starting collector or a populated cgroup: 409.  (A
\* process without an owned cgroup is only seen if its root pid was verified, so
\* it does not keep an abort from going on here.)
Refused ==
    \/ \E e \in Executions : completion[e] \in InHandler
    \/ \E e \in Executions : Known(e) /\ starting[e] # "none"
    \/ \E e \in Active : process[e] = "running" /\ cgroup[e] = "present"

AbortBegin ==
    /\ abort \in {"none", "failed", "broken"}
    /\ ~Refused
    /\ closed' = TRUE
    /\ abort' = "collect"
    /\ left' = targets \cup {e \in Executions : Known(e)}
    /\ targets' = left'
    /\ UNCHANGED <<record, launcher, cgroup, collector, tasks, completion, scope, victim, drained>>

\* Mutant: only the executions of known records are aborted.
AbortKnownOnly ==
    /\ abort = "collect"
    /\ abort' = "next"
    /\ UNCHANGED <<record, launcher, cgroup, collector, tasks, completion, scope, closed,
                   targets, left, victim, drained>>

\* The first step of the task adds the collectors that outlived their records.
AbortCollects ==
    /\ abort = "collect"
    /\ abort' = "next"
    /\ left' = left \cup {e \in Executions : run[e]}
    /\ targets' = targets \cup left'
    /\ UNCHANGED <<record, launcher, cgroup, collector, tasks, completion, scope, closed,
                   victim, drained>>

\* The launcher's status is authoritative; every other target is aborted.
AbortNext(e) ==
    /\ abort = "next"
    /\ e \in left
    /\ IF record[e] = "reported" THEN UNCHANGED record ELSE MarkCompleted(e)
    /\ IF record[e] = "reported" /\ ~NeedsFinalization(e)
       THEN UNCHANGED fallback ELSE CancelFallback(e)
    /\ IF NeedsFinalization(e) THEN JoinFinish(e, record[e] = "reported")
                               ELSE UNCHANGED <<finishing, evidence>>
    /\ left' = left \ {e}
    /\ IF record[e] = "reported" /\ ~NeedsFinalization(e)
       THEN UNCHANGED <<abort, victim>>
       ELSE abort' = "wait" /\ victim' = e
    /\ UNCHANGED <<launcher, cgroup, starting, run, summary, measured, gc, completion,
                   scope, closed, targets, drained>>

AbortWaited ==
    /\ abort = "wait"
    /\ finishing[victim] = "none"
    /\ abort' = "next" /\ victim' = Nobody
    /\ \/ record[victim] = "reported" /\ UNCHANGED <<cgroup, gc>>
       \/ /\ record[victim] # "reported"
          /\ IF Removable(victim) THEN cgroup' = Removed(victim) /\ UNCHANGED gc
                                  ELSE ScheduleCleanup(victim) /\ UNCHANGED cgroup
    /\ UNCHANGED <<record, launcher, collector, fallback, completion, scope, closed,
                   targets, left, drained>>

\* Observation errors leave the runtime open for another abort, an exception
\* (executions.abort of a swept record, finalize_runtime) keeps drains waiting.
AbortEnds ==
    /\ \/ abort = "next" /\ left = {} /\ abort' \in {"done", "failed", "broken"}
       \/ abort = "next" /\ abort' = "broken"
    /\ left' = {}
    /\ UNCHANGED <<record, launcher, cgroup, collector, tasks, completion, scope, closed,
                   targets, victim, drained>>

\* drain_runtime_state: everything idle, after which it flushes.
Idle ==
    /\ Active = {}
    /\ \A e \in Executions : ~run[e] /\ completion[e] \notin InHandler \cup {"failed"}
    /\ \A e \in Executions : Known(e) =>
          starting[e] = "none" /\ finishing[e] = "none" /\ fallback[e] = "none"
    /\ abort \in {"none", "done", "failed"}

Drain ==
    /\ Idle
    /\ drained' = TRUE
    /\ UNCHANGED <<record, launcher, cgroup, collector, tasks, completion, scope, aborting>>

Launcher(e) == RegisterMarker(e) \/ Claim(e) \/ Started(e) \/ ProcessEnds(e) \/ Exited(e) \/ Sweep(e)
Scan == ScanEnd \/ \E e \in Executions : ScanBegin(e) \/ ScanNext(e)
Abort == AbortBegin \/ AbortCollects \/ AbortWaited \/ AbortEnds
         \/ \E e \in Executions : AbortNext(e)

Next == \/ \E e \in Executions : Launcher(e) \/ Start(e) \/ Finish(e) \/ Delayed(e) \/ Completion(e)
        \/ Scan \/ Abort \/ Drain

Spec == Init /\ [][Next]_vars

-----------------------------------------------------------------------------
(* Properties.                                                              *)

\* "The predictor's active-run registry is the exactly-once authority": exit,
\* fallback, completion, abort and later scope updates together finish the
\* collector of an execution at most once.
MeasuredOnce == \A e \in Executions : measured[e] <= 1

\* A measurement stands: a final summary is only ever replaced by a start that
\* had registered the collector before it was finished and publishes late,
\* without a lock, never by one that comes after the finish; and a launcher
\* status that has been accepted is used by whichever task finishes the
\* collector, the orphan path and the abort included.
MeasurementStands ==
    [][\A e \in Executions :
          /\ summary[e] = "final" /\ starting[e] # "registered" => summary'[e] = "final"
          /\ finishing[e] = "none" /\ finishing'[e] # "none" /\ record[e] = "reported"
                => e \in evidence']_vars

\* A successful abort leaves no collector and none that is being started, and no
\* worker that reads the last samples of an execution the registry still knows.
AbortedIsQuiet ==
    abort = "done" => \A e \in Executions :
        /\ ~run[e] /\ starting[e] = "none"
        /\ Known(e) => finishing[e] # "stopping"

\* A drain that answers leaves no collector of the runtime, and no task that the
\* registry still knows of, until a new request of the runtime is handled.
DrainedIsQuiet ==
    drained => \A e \in Executions :
        /\ ~run[e]
        /\ Known(e) => starting[e] = "none" /\ finishing[e] = "none" /\ fallback[e] = "none"

\* What abort and drain answer is so.
QuietWhenSaid == AbortedIsQuiet /\ DrainedIsQuiet

-----------------------------------------------------------------------------
(* Liveness.  The tasks of the event loop and the worker threads go on, the  *)
(* timers fire and a completion is retried finitely often; nothing is         *)
(* assumed of launchers, hooks and aborts.                                    *)

Fairness ==
    \A e \in Executions : /\ WF_vars(Start(e)) /\ WF_vars(Finish(e))
                          /\ WF_vars(FallbackFires(e)) /\ WF_vars(FallbackEnds(e))
                          /\ WF_vars(GcFires(e)) /\ WF_vars(GcRetries(e))
                          /\ WF_vars(OrphanEnds(e)) /\ WF_vars(CollectorFinished(e))
                          /\ WF_vars(MarksCompleted(e)) /\ WF_vars(CompletionRemoves(e))

\* An exit is settled.  A collector whose grace period has begun is finished,
\* whether the completion comes, is lost, fails or races the fallback (a finishing
\* task that began before a second start, and is about to look for the collector,
\* does not wait for it); and the owned cgroup of a reported execution is removed,
\* unless completions that fail keep coming or a collector, which needs it, was
\* left behind.
ExitIsSettled ==
    \A e \in Executions :
        /\ fallback[e] = "grace" /\ finishing[e] # "thread" ~> ~run[e] /\ starting[e] = "none"
        /\ record[e] = "reported" /\ cgroup[e] = "present"
              ~> cgroup[e] = "removed" \/ completion[e] \in InHandler \/ run[e]
=============================================================================
