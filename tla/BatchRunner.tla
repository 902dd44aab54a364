----------------------------- MODULE BatchRunner -----------------------------
(***************************************************************************)
(* One batch of swe_rebench (runner.py run_batch): tasks run one after the   *)
(* other or in a thread pool, in containers of their own or on the host with *)
(* a sidecar that the batch shares, and hand knowledge from task to task     *)
(* through the batch's knowledge-base directory.                             *)
(*                                                                           *)
(* In containers, serial: a task is seeded from the shared directory and     *)
(* publishes its own back.  In containers, parallel: every task starts from  *)
(* the batch baseline and their traces are merged at the end.  On the host   *)
(* the shared sidecar writes the directory itself.                           *)
(***************************************************************************)
EXTENDS Naturals, FiniteSets

CONSTANTS N,          \* tasks 1..N, in order
          Pools,      \* values of batch.parallelism
          Retries,    \* batch.retry_failed
          Files,      \* the snapshots of the knowledge base
          Stale,      \* tasks whose trace directory holds an earlier batch's traces
          MaxFaults   \* bound: steps that raise, processes that die

ASSUME BatchAssumption ==
    /\ N \in Nat /\ Pools \subseteq Nat \ {0} /\ Retries \in Nat /\ MaxFaults \in Nat
    /\ Files # {} /\ Stale \subseteq 1..N

Tasks == 1..N

VARIABLES
    mode, workers, \* runtime.mode and batch.parallelism
    phase,     \* of run_batch
    pc,        \* task -> where its worker is
    attempt,   \* task -> attempts begun
    outcome,   \* task -> how its worker ended: "ok", "fail", "kb" (KnowledgeBaseSyncError)
    trace,     \* task -> observations in its trace directory
    kb,        \* task -> file -> observations in its own knowledge base
    shared,    \* file -> observations in the batch's knowledge base
    left,      \* tasks whose container could not be removed
    sidecar,   \* the batch's: "none", "up", "dead", "stopped"
    results, completed, failed, aborted,  \* the report
    faults

config == <<mode, workers>>
worker == <<pc, attempt, outcome, trace, kb, left>>
report == <<results, completed, failed, aborted>>
vars == <<config, phase, worker, shared, sidecar, report, faults>>

\* An observation is the task and attempt it was made in; attempt 0 is of an
\* earlier batch.
Observations == Tasks \X (0..Retries + 1)
Empty == [f \in Files |-> {}]

Init ==
    /\ mode \in {"container", "host"} /\ workers \in Pools
    /\ phase = "running"
    /\ pc = [t \in Tasks |-> "queued"] /\ attempt = [t \in Tasks |-> 0]
    /\ outcome = [t \in Tasks |-> "none"]
    /\ trace = [t \in Tasks |-> IF t \in Stale THEN {<<t, 0>>} ELSE {}]
    /\ kb = [t \in Tasks |-> Empty] /\ shared = Empty /\ left = {}
    /\ sidecar = (IF mode = "host" THEN "up" ELSE "none")
    /\ results = {} /\ completed = 0 /\ failed = 0 /\ aborted = FALSE /\ faults = 0

Fault == faults < MaxFaults /\ faults' = faults + 1

\* defer_container_kb_merge
Deferred == mode = "container" /\ workers > 1

TypeOK ==
    /\ phase \in {"running", "joining", "merging", "reporting", "done"}
    /\ pc \in [Tasks -> {"queued", "cancelled", "running", "publishing", "ended", "handled"}]
    /\ attempt \in [Tasks -> 0..Retries + 1]
    /\ outcome \in [Tasks -> {"none", "ok", "fail", "kb"}]
    /\ trace \in [Tasks -> SUBSET Observations]
    /\ shared \in [Files -> SUBSET Observations] /\ left \subseteq Tasks
    /\ sidecar \in {"none", "up", "dead", "stopped"}
    /\ results \subseteq Tasks /\ completed + failed <= N /\ aborted \in BOOLEAN

-----------------------------------------------------------------------------
(* The worker of a task: run_task, _run_one, _execute_one.                   *)

Active == {t \in Tasks : pc[t] \in {"running", "publishing"}}

Ends(t, how) == /\ pc' = [pc EXCEPT ![t] = "ended"]
                /\ outcome' = [outcome EXCEPT ![t] = how]

\* The pool takes tasks in the order they were submitted; the serial loop first
\* handles the result of the task before.
MayStart(t) ==
    /\ pc[t] = "queued" /\ \A u \in Tasks : u < t => pc[u] # "queued"
    /\ IF workers = 1 THEN phase = "running" /\ \A u \in Tasks : u < t => pc[u] = "handled"
       ELSE Cardinality(Active) < workers

SeedOf == shared

\* _reset_task_trace_dir clears what an earlier batch left, then a container
\* task is seeded.
Start(t) ==
    /\ MayStart(t)
    /\ \/ /\ trace' = [trace EXCEPT ![t] = {}]
          /\ kb' = IF mode = "container" THEN [kb EXCEPT ![t] = SeedOf] ELSE kb
          /\ attempt' = [attempt EXCEPT ![t] = 1]
          /\ pc' = [pc EXCEPT ![t] = "running"]
          /\ UNCHANGED <<outcome, faults>>
       \/ Fault /\ Ends(t, "fail") /\ UNCHANGED <<attempt, trace, kb>>
       \/ /\ mode = "container" /\ Fault /\ Ends(t, "kb")
          /\ trace' = [trace EXCEPT ![t] = {}] /\ UNCHANGED <<attempt, kb>>
    /\ UNCHANGED <<config, phase, shared, left, sidecar, report>>

\* What an attempt leaves in the task's directory: traces, and a knowledge base
\* if its sidecar lived to save one.
Learn(t) ==
    LET observation == <<t, attempt[t]>> IN
    /\ trace' = [trace EXCEPT ![t] = @ \cup {observation}]
    /\ \/ kb' = [kb EXCEPT ![t] = [f \in Files |-> @[f] \cup {observation}]]
       \/ UNCHANGED kb

\* Mutant: a task whose container was not removed is published too.
PublishesAny(t, removed) == ~Deferred
Publishes(t, removed) == ~Deferred /\ removed

\* run_container returned or raised; an unsuccessful attempt is repeated in the
\* same directory, a container that cannot be removed ends the task.
AttemptEnds(t, succeeded, removed) ==
    /\ mode = "container" /\ pc[t] = "running"
    /\ Learn(t)
    /\ IF removed THEN UNCHANGED <<left, faults>> ELSE Fault /\ left' = left \cup {t}
    /\ IF ~succeeded /\ removed /\ attempt[t] <= Retries
       THEN attempt' = [attempt EXCEPT ![t] = @ + 1] /\ UNCHANGED <<pc, outcome>>
       ELSE /\ pc' = [pc EXCEPT ![t] = IF Publishes(t, removed) THEN "publishing" ELSE "ended"]
            /\ outcome' = [outcome EXCEPT ![t] = IF succeeded /\ removed THEN "ok" ELSE "fail"]
            /\ UNCHANGED attempt
    /\ UNCHANGED <<config, phase, shared, sidecar, report>>

\* run_host_openclaw_task: the batch's sidecar, if it lives, learns for all.
HostTaskEnds(t, succeeded) ==
    /\ mode = "host" /\ pc[t] = "running"
    /\ Ends(t, IF succeeded THEN "ok" ELSE "fail")
    /\ trace' = [trace EXCEPT ![t] = @ \cup {<<t, 1>>}]
    /\ shared' = IF sidecar = "up" THEN [f \in Files |-> shared[f] \cup {<<t, 1>>}] ELSE shared
    /\ UNCHANGED <<config, phase, attempt, kb, left, sidecar, report, faults>>

\* _publish_tool_resource_kb stages, replaces file by file and rolls back; only
\* when the rollback fails as well is a mixed generation left.
Publish(t) ==
    /\ pc[t] = "publishing"
    /\ \/ shared' = kb[t] /\ pc' = [pc EXCEPT ![t] = "ended"] /\ UNCHANGED <<outcome, faults>>
       \/ Fault /\ Ends(t, "kb") /\ UNCHANGED shared
       \/ /\ Fault /\ Ends(t, "kb")
          /\ \E replaced \in SUBSET Files :
                shared' = [f \in Files |-> IF f \in replaced THEN kb[t][f] ELSE shared[f]]
    /\ UNCHANGED <<config, phase, attempt, trace, kb, left, sidecar, report>>

SidecarDies ==
    /\ sidecar = "up" /\ Fault
    /\ sidecar' = "dead"
    /\ UNCHANGED <<config, phase, worker, shared, report>>

-----------------------------------------------------------------------------
(* The main thread: as_completed, the finally clause, the merge, the report.  *)

\* Mutant: only the result is kept, the batch goes on.
AbortsNever(t) == FALSE
Aborts(t) == outcome[t] = "kb"

Handle(t) ==
    /\ phase = "running" /\ pc[t] = "ended"
    /\ results' = results \cup {t}
    /\ IF outcome[t] = "ok" THEN completed' = completed + 1 /\ UNCHANGED failed
                            ELSE failed' = failed + 1 /\ UNCHANGED completed
    /\ aborted' = (aborted \/ Aborts(t))
    /\ phase' = IF Aborts(t) THEN "joining" ELSE phase
    /\ pc' = [u \in Tasks |-> IF u = t THEN "handled"
                              ELSE IF Aborts(t) /\ pc[u] = "queued" THEN "cancelled" ELSE pc[u]]
    /\ UNCHANGED <<config, attempt, outcome, trace, kb, left, shared, sidecar, faults>>

\* Mutant: the pool waits for futures that were cancelled, too.
JoinedByAll == \A t \in Tasks : pc[t] = "handled"
Joined == Active = {}

\* The executor's exit waits for running workers; then the sidecar is stopped,
\* and a dead one aborts the batch.
Join ==
    /\ phase = "joining" \/ (phase = "running" /\ \A t \in Tasks : pc[t] = "handled")
    /\ Joined
    /\ sidecar' = IF sidecar = "none" THEN sidecar ELSE "stopped"
    /\ aborted' = (aborted \/ sidecar = "dead")
    /\ phase' = IF Deferred THEN "merging" ELSE "reporting"
    /\ UNCHANGED <<config, worker, shared, results, completed, failed, faults>>

\* _merge_parallel_task_kbs replays the traces of every task directory.
Merge ==
    /\ phase = "merging" /\ phase' = "reporting"
    /\ \/ /\ shared' = [f \in Files |-> shared[f] \cup UNION {trace[t] : t \in Tasks}]
          /\ UNCHANGED <<aborted, faults>>
       \/ Fault /\ aborted' = TRUE /\ UNCHANGED shared
    /\ UNCHANGED <<config, worker, sidecar, results, completed, failed>>

Report ==
    /\ phase = "reporting" /\ phase' = "done"
    /\ UNCHANGED <<config, worker, shared, sidecar, report, faults>>

TaskStep(t) ==
    \/ Start(t) \/ Publish(t)
    \/ \E succeeded, removed \in BOOLEAN : AttemptEnds(t, succeeded, removed)
    \/ \E succeeded \in BOOLEAN : HostTaskEnds(t, succeeded)

Next == \/ \E t \in Tasks : TaskStep(t) \/ Handle(t)
        \/ SidecarDies \/ Join \/ Merge \/ Report

Spec == Init /\ [][Next]_vars

\* Workers and the main thread run; a task's container or agent ends (at the
\* latest at its timeout).
Closing == Join \/ Merge \/ Report
FairSpec == /\ Spec /\ WF_vars(Closing)
            /\ \A t \in Tasks : WF_vars(TaskStep(t)) /\ WF_vars(Handle(t))

-----------------------------------------------------------------------------
(* Properties.                                                              *)

\* "so an I/O failure during replace cannot expose a mixed generation to the
\* next task": a task works on snapshots of one generation, whatever publish or
\* rollback failed before it.  And the sidecar stops, traces are merged and the
\* report is written only when no worker runs any more, also after an abort.
SeedsAreWhole == \A t \in Tasks : pc[t] = "running" => \A f, g \in Files : kb[t][f] = kb[t][g]
BarrierIsQuiet == phase \in {"merging", "reporting", "done"} => Active = {}

\* "must not leave the in-container sidecar writing snapshots after the batch
\* publishes this task's KB": serially, what is shared comes from containers that
\* are gone, and from this batch.  (The merge at the end of a parallel batch reads
\* every task's directory, also one never started, reset or quiet.)
SharedFromRemoved ==
    ~Deferred => \A f \in Files : \A o \in shared[f] : o[1] \notin left /\ o[2] > 0

\* A batch that is not aborted reports every task and keeps what each learned:
\* no task overwrites another's knowledge, and the counts agree with the results.
CompleteUnlessAborted ==
    phase = "done" /\ ~aborted =>
        /\ results = Tasks /\ completed + failed = N
        /\ completed = Cardinality({t \in Tasks : outcome[t] = "ok"})
        /\ mode = "container" => \A t \in Tasks \ left : \A f \in Files :
               (IF Deferred THEN trace[t] ELSE kb[t][f]) \subseteq shared[f]

BatchIsIsolated == SeedsAreWhole /\ BarrierIsQuiet /\ SharedFromRemoved /\ CompleteUnlessAborted

\* A batch is over when its report is written.
Done == phase = "done"
=============================================================================
