# ClawTune in TLA+

ClawTune puts a *sidecar* (Python, `src/services/sidecar`) next to an agent
gateway. A TypeScript *plugin* in the gateway (`src/packages/clawtune-plugin`)
asks the sidecar before each tool call whether the call may start, and reports
when it is over. A *launcher* runs the command of the call. The sidecar admits
calls within a CPU and slot budget, follows the processes of a call (cgroups,
eBPF, hardware counters), labels what it measured, learns from it, and keeps what
it learned in a directory of knowledge-base snapshots. A benchmark runner
(`src/swe_rebench`) drives all of it over batches of tasks and audits what was
measured.

The modules here specify the parts in which several parties act on shared state
or in which a long history decides an answer: HTTP handlers that interleave at
every `await`, delayed tasks, worker threads, launchers and hooks that repeat or
lose their reports, processes that fork and die while they are watched, programs
that crash between two file operations. Everything is translated from the source;
each definition is listed with its lines in `PROJECT.json` (`map`).

Contents: 1 the system, 2 the modules, 3 what the runs check, 4 what is proved,
5 where the code and its documentation differ, 6 not modelled, 7 plan.

## 1. The system

| Component | State it keeps | Operations | Works with |
|---|---|---|---|
| State directory (`clawtune_kb/store.py`) | working snapshots, `generations/NNNNNN`, `CURRENT`, `state.json`, an owner lock | initialise, checkpoint, trim, enter, restore | the KB writer's saves, start-up |
| KB write coordinator and learning (`predictors/tool_resource.py`) | three knowledge bases, update queue, one worker, retry batch, versions saved | finish_execution, observe_completion, flush, close, replay | threads of the API; the state directory |
| Execution collectors (same file) | active runs, telemetry summaries | begin_execution, finish_execution | tasks of the API, eBPF SDK |
| Lease manager, concurrency policy (`admission/leases.py`, `policies/concurrency.py`) | leases by id, deadlines, CPU in use | acquire, bind, release, release_execution, release_runtime | decision, registration, exit, completion |
| Execution registry (`executions.py`) | records, one-time tokens, closed runtimes, retention deadlines | register, claim, started, exited, mark_completed, abort, sweep | launcher, plugin, abort |
| HTTP API (`api/app.py`) | starting, finishing, fallback and cgroup tasks, sandbox scopes, abort states | about 30 handlers | everything |
| Trace writer (`trace.py`) | pending spans, captures, writer thread, runtime activity | write, flush, finalise, release, close | drain, abort and every handler |
| LLM proxy (`llm_proxy.py`) | event buffer of a stream, its record | open, forward, end, cancel | provider, client, trace writer |
| eBPF source and SDK (`tool_resource/telemetry.py`, `sdk.py`) | filters, leases, routes, ring, losses | acquire, extend, poll, release, finish | collectors |
| Clause labels (`tool_resource/clause_bridge.py`, `telemetry.py`, Go parser adapter) | none | events of a call to labels per clause | SDK, knowledge bases |
| Knowledge bases (`tool_resource/runtime_kb.py`, `tool_time/*`) | public and repository layers, pending rows, lattice with prepared versions | fit, observe, fork, publish, reload, query | coordinator, predictions |
| Command parser and its rules (`command_parser/*`) | rules, queue of unknown entries, one worker | parse, enqueue, probe `--help`, generate, close | predictor, containers, a provider |
| Monitors (`monitoring/*`) | windows of calls, docker execs, memory timelines, counter groups | begin, bind, narrow, complete, poll | hooks, docker events, kernel |
| Launcher (`launcher.py`) | one or two children, their gates, reports | claim, start, release, wait, report, signal | registry handlers |
| Plugin auto-start (`sidecar-launcher.ts`) | shared child process, reference count | register, join, release, restart | plugin instances of several processes |
| Plugin hooks and trace (`index.ts`, `correlation.ts`, `trace/*`) | pending calls, run writers | before, after, completion, agent_end | the API |
| Benchmark (`swe_rebench/*`) | batch KB directory, attempts, an agent's process tree | run, retry, publish, merge, cancel, clean up, audit | all of the above, from outside |
| Online benchmark run (`benchmarks/runner.py`, `runtime.py`) | `run.json` and the process's copy of it, a pool of workers, one sidecar | start, claim, record, flush, unwind, resume | host task, sidecar |
| Bridged tools (`benchmarks/backends.py`, `tool_bridge.py`, `exec_control.py`) | one backend behind a lock, answers by call id, a container or a worker process | call, gate, report, cancel, quiesce, close, release the scope | agent, Docker, sidecar |

Interactions that are hard:

* The handlers run on one event loop and are atomic between awaits only;
  `begin_execution` and `finish_execution` run in threads; the KB writer, the trace
  writer, the eBPF poller and the rule generator have threads of their own. Every
  list read before an await is old after it.
* Four parties may want the same collector finished: launcher exit, completion
  hook, a grace-period task, abort. The exit report is retried, the hook may be
  lost, late, yielded or cut off by its client.
* Four parties may release a lease, by three different names, and the provisional
  lease also has a deadline.
* A save writes three files and commits them as one; any step may fail or be the
  last of its process. What is lost is learned again from artifacts and traces,
  which must not count anything twice.
* The kernel delivers events late, in a ring that overflows, filtered by scopes
  that change while commands run; the docker daemon reports execs in any order.
  A measurement that missed something must not look like one that did not.
* Shutdown everywhere: a close may time out, fail and be retried; a batch is
  cancelled while its tasks run; a shared child is released by one party and
  joined by another; a run is killed between two saves of its report and resumed; a
  tool call is repeated while the container it ran in is being stopped.

What makes each part correct is said by its properties (section 3); what can go
wrong, line by line, and which property would notice, is the list `hazards` of
`PROJECT.json`, with the hazards that no property covers.

## 2. The modules

    StateStore ==implements==> AtomicCommit      the knowledge-base directory
      ^ one checkpoint is the commit step of
    KbWriter                                     learning, batching, saving, closing
      ^ learns what                              LearningHistory: live and by replay
    ExecutionLifecycle                           collectors, fallbacks, abort, drain
      ^ the same records, seen from
    Admission                                    leases, registry, completion, abort
    ExecutionScope                               whose cgroup and processes
      ^ /started and /exited of
    Launcher                                     gates, reports, signals

    TraceWriter ==implements==> AcknowledgedStore
      ^ records of                               LlmProxy, (plugin:) PluginTrace
    CommandRun <- ExecImages <- ClauseBridge     from processes to labels per clause
    SharedTelemetry, ToolWindow, PmuCollector,
    EnvironmentMemory, ExecObserver              what is measured and for whom
    LatticeKb, ClauseKb                          what answers a prediction
    RuleGenerator                                probes that may not disturb
    SharedSidecar, BatchRunner, BenchmarkRun,
    HostTask, BridgedTask, TaskVerdict           the programs around the sidecar

    StateStoreProofs, AdmissionProofs, KbWriterProofs, ExecutionLifecycleProofs
                                                 theorems about the module of that name
    TraceWriterProofs                            TraceWriter, LlmProxy
    MeasurementProofs                            Launcher, SharedTelemetry, ExecObserver,
                                                 ExecutionScope, RuleGenerator,
                                                 EnvironmentMemory
    PluginProofs                                 SharedSidecar, PluginTrace
    BenchmarkProofs                              BatchRunner, BenchmarkRun, HostTask,
                                                 BridgedTask, TaskVerdict

A definition whose comment begins with "Mutant:" is not part of `Next`: it stands
before the definition it could replace, the way a plausible bug would, and shows
that some property depends on that definition. `TypeOK` is stated in most modules
as documentation; where a module has proofs it is, or is strengthened into, a part of
the proved inductive invariant, and it is not listed in the configurations.

An `MC` module exists where an instance needs more than constants: two initial
states, a symmetry, or several components in one run. `StateStore`, `ExecutionScope`
and `TaskVerdict` are checked as they are.

### AtomicCommit, StateStore — the knowledge-base directory

`AtomicCommit` is what the directory promises: the snapshots of all backends are
committed together or not at all, a process that stops loses what it had not
committed and nothing else, and a power loss may damage a commit that was just
made (`Damaged`), which is then noticed. `StateStore` is the code, one file
operation per step: `MakeDirectory`, `CopySnapshot`, `SealGeneration`,
`SwitchCurrent`, `WriteRootState`, `Trim` for `checkpoint()`; `Enter`,
`RestoreSnapshot`, `FinishRestore` for `__enter__` and `restore()`.
`FailCheckpoint` is an exception in any of them, `StopProcess` an exit or a death
at any point. A snapshot is abstracted to a version number; a damaged one is
`Torn`. The kernel is external: `WriteBack` and `LosePower` concern only what the
code leaves unsynced (`shutil.copyfile`); what `write_json` and the atomic snapshot
writer sync stays.

Refinement mapping: the committed snapshots are the copies in the generation
`CURRENT` names; the working snapshots are the working set while a process owns
the directory and the committed ones while it is down or restoring. So
`SwitchCurrent` is the abstract commit, `LosePower` the abstract power loss, and
everything else of a checkpoint stutters.

### KbWriter — learning and its durability

An observation is `<<execution, kind>>`. `BeginFinish`, `LearnResources`,
`EnqueueResources` are `finish_execution`: resource rows are learned by the clause
index under the lock and enqueued for the lattice after it. `BeginCompletion`,
`LearnMemory`, `LearnCall` are `observe_completion`. The worker's loop `_run` is
`Take` … `EndRound`, one step per access to shared state, with the idle exit
(`TakeTimeout`, `IdleExit`), the forked-and-published batch (`Publish`), the batch
kept for retry (`KeepForRetry`), the capture under the lock and the writes outside
it (`Capture`, `WriteFile`, `EndPersist`) and the answer to the barriers. `close()`
is `CloseFence` … `CloseDone`. `EndPersist` commits the working snapshots in one
step, which is what `StateStore` implements. `NextProcess` starts a new process
from the commit, at any step of the old one. `InitAt` starts the module in any progress of
the executions, so that the run and the proofs also begin in a process that is not
the first.

### Admission — leases and the registry

A call has one lease and one record; `lease` and `record` are functions of the
call. `Decide` is a poll of `acquire` that finds room, with the sweep of expired
leases it begins with; `Withdraw` a client that disconnects while the decision is
on its way; `Register` binds the lease to the execution; `Claim`, `Exited`, the
four steps of a completion (`BeginCompletion`, `CompletionRelease`,
`FinishCompletion`, `FailCompletion`), the abort task (`AbortBegin`,
`AbortExecution`, `AbortBreaks`, `AbortFinish`) and `Teardown` are the handlers,
cut where they await. `handed` says whether the plugin has the lease id; a
completion whose correlation has expired names neither execution nor lease and is
adopted. Time is abstracted to deadlines that have or have not passed.

### ExecutionLifecycle — collectors, delayed tasks, abort and drain

Per execution: the record, the process, the owned cgroup, the collector
(`starting`, `run`, `summary`, `finishing`), the grace-period task (`fallback`),
the garbage collection of the cgroup (`gc`) and the completion handler. For the
runtime: a sandbox-scope handler with the list it read (`scan`), the abort task
and the drain. `StartRegisters`/`StartPublishes` are the two critical sections of
`begin_execution`, `FinishPops`/`FinishStops` those of `finish_execution`.

Abstractions: registration of a launched execution is merged with its claim; a
retention sweep does not overtake a task that takes seconds (300 s for completed
records, an hour for markers), except the garbage collection of a cgroup whose
collector stays active; a process without an owned cgroup does not hold up an
abort, since the code's check has nothing to look at; exit reports repeat at most
`MaxReports` times.

### ExecutionScope — whose resources an execution's are

`/started` as a sequence of steps with its awaits (`Starting`, `StartEnds`,
`Settle`), the discovery of a sandbox beside it (`Discover`), and the choice of
the best scope at completion. The launcher may see its child from inside a
sandbox, so that its process id is another process's on the host and its path may
be nothing there (`Resolved`, `HostPath`, `Derived`). One `/started` per execution.

### Launcher

Both ways to start a command (`subprocess`, `forkexec`) and the degraded one. `env`
is what the environment demands. Children are the first one and the one in a
systemd scope that replaces it. Claims, starts and exits are reported with retries
whose replies may be lost; signals arrive at any step; a gate is opened only by
the step that the code opens it in (`Replaced`, `Resumed`, `Confirmed`).

### SharedTelemetry, ToolWindow, PmuCollector, EnvironmentMemory, ExecObserver

* `SharedTelemetry`: the one eBPF attachment of the process. Leases count
  references per cgroup. `Attach` acquires one for any set of cgroups; it may fail
  between two of them (`Rollback`) or after the lease was taken (`Withdraw`). The
  poller copies ring events to the leases whose scope owns them, reading routes
  without the lock. A finish checks the poller (`FinishBegin`) and, 30 ms later,
  takes what has arrived by then (`FinishSlice`), which may be before or after any
  step of the poller; cgroups that the events reveal extend the lease, and an
  extension that fails keeps the groups before the failure (`Halfway`). Three
  history variables record what the code does not notice: `late`, `overdrawn`,
  `dark`. Pid namespaces are filtered like cgroups.
* `ToolWindow`: the window of a call that has no collector of its own. It is
  opened on a container, narrowed to the process that turns out to be the call's,
  or replaced; at completion one process tree's CPU is computed from samples and
  counters. An event's position in the log is its time.
* `PmuCollector`: groups of counters opened behind the gate, read once by whoever
  comes first, reaped when their process is gone, bounded in number, descriptors
  and remembered answers.
* `EnvironmentMemory`: memory belongs to the task, so a call may take a peak only
  if it ran alone and its samples are dense. The before-hook (`Hook`) watches a call,
  leaves it unwatched because its cgroup is not known yet, or gives it up; a scope
  that is found later begins its row (`Begin`), `/started` moves it (`Bind`, also with
  the old place unknown) and may be repeated (`BindAgain`): all of it before, while or
  after the payload runs. Calls end and are completed in different orders. The
  history variable `attended` says since when the task of a call is watched for it.
* `ExecObserver`: docker events, watchers, hooks and answers match execs to calls
  under a lock and notify outside it. A completion may come again, or for a call that
  was never observed: it then takes the record of the only other call of its tool
  (`Popped`), which the history variable `strayed` remembers.

### CommandRun, ExecImages, ClauseBridge — labels

`CommandRun` is the environment: a shell runs a command (pipelines, `&&`, `||`,
`;`, `!`, builtins, alternatives of expansion), its processes fork, execute, fail,
read, are killed and exit in any order; what the BPF programs record of it is
translated from `telemetry.py`, including lost events and cut argument vectors.
`ExecImages` is `_isolate_call_events`, `_clauses_and_lineage`, `_attribute` and the
I/O accounting. `ClauseBridge` is `bridge_command`: chains, alignment, assignment,
exchange of equal clauses, failed and skipped clauses, short circuits, and the
verdict `DataValid`. The result is a function of the log, computed in three steps
so that TLC evaluates it once per run.

### LearningHistory, LatticeKb, ClauseKb — what is learned and answered

* `LearningHistory`: executions are learned live (cpu row, memory row, call), the
  lattice takes them from a queue, three snapshots are written one by one, the
  process dies anywhere, and the next one restores what is there and merges
  artifacts and traces over it. What identifies an observation in each knowledge
  base is translated: occurrences beyond a baseline, keys with or without time
  stamps, missing metrics.
* `LatticeKb`: one lattice, its forks, its prepared version, and the queries that
  install, extend or rebuild it. Statistics are abstracted to the set of rows of a
  node. `subset_coverage` is on, as production has it.
* `ClauseKb`: the prefix levels of calls and clauses, public and per repository,
  rows pending until a query starts after their end, and the composition of a
  pipeline's total.

### TraceWriter, AcknowledgedStore, LlmProxy

`AcknowledgedStore` is what a write-behind component promises: what was
acknowledged is durable and stays so. `TraceWriter` implements it: handlers queue
records, the writer takes them in batches to buffered files and syncs at markers,
errors stick, drain, abort, release and close write what is left open, and a crash
may come anywhere. The queue keeps its order; a file is the set of records in it,
buffered or synced, since nobody reads the order of two records in a file; of the
captures kept for their call any may be the oldest. `LlmProxy` feeds it: a streamed answer is a generator that can
be cancelled at each wait and each yield; events are two halves, so a chunk may
end inside one; the count of active streams is what drain and abort read.

### RuleGenerator

One worker, a bounded queue, states per entry and version of its source, the gate
that `begin_execution` takes, a help container that may linger, a provider that
answers, refuses or hangs, edits of a script (`MaxEdits` of each), `close()` at any
step. An execution is `active` from the gate until it is popped, `closing` until its
collector has closed the window 30 ms later, and ended after that. What a grammar says is abstracted to whether it was accepted.

### SharedSidecar, PluginTrace, BatchRunner, BenchmarkRun, HostTask, BridgedTask, TaskVerdict

* `SharedSidecar`: registrations in several Node processes share a launch entry; the
  endpoint may be held by someone else's sidecar. The signal that ends the child
  (`Kill`) may fail, or reach only the shell of a custom command, which may also
  leave the sidecar in the background (`Daemonizes`): the entry is deleted all the
  same, and the sidecar goes on as a `stray` that still answers at the endpoint.
* `PluginTrace`: hooks of calls and `agent_end` against creation, use and close of
  the writers of a run. `AgentEnd` has the guard that the code relies on (the
  run's completion hooks have been called, `run-writer-manager.ts:147`).
* `BatchRunner`: `run_batch` with one or several workers, in containers or on the
  host, with retries, stale directories, failing publications and a final merge.
* `BenchmarkRun`: `run()` of an online run. `saved` is `run.json`, `manifest` the copy
  of the process; they are equal only after a write. A claim adds tasks to
  `active_tasks` and writes the file before it submits them (`Persist`, `Claim`,
  `Submit`); rows are recorded as futures end (`Record`, `RecordRaises`), what is left
  is collected after the pool (`Collect`), and the final barrier sets
  `kb_flush_complete` (`Flush`, `Settle`). Every step may raise, be interrupted or be
  the last of its process, and `StopSidecar` may find the sidecar dead; agents and
  sidecar outlive a killed runner. What is learned is a set of pairs of a task and
  the invocation that ran it, in `memory` until a save puts it on `disk`. `Resume`,
  `FirstStart` and `ReturnsReport` begin an invocation.
* `BridgedTask`: `_execute_bridged` (`owner`), the HTTP handlers of `ToolBridge`
  (`handler`, `lock`, `results`), and the two backends. A command in a container is
  started without a gate (`Plain`) or blocked behind one (`Gate`), reported, and
  `Release`d; it ends, or is aborted when the deadline passes or the bridge closes. A
  functions backend has one worker that is admitted to its own scope before it
  loads (`Admit`, `Load`), may leave descendants, and ends cleanly, with exit code 125
  or by force (`StopWorker`). `Quiesce`, `Down`, `Tell`, `Close`, `ReleaseScope` are the
  `finally` of the task in its order, each of which may fail. The contents of the
  reports are left out: whether they arrive changes nothing here.
* `HostTask`: the worker thread, the deadline, cancellation, the supervisor as a
  subreaper, the cleanup and its confirmations.
* `TaskVerdict`: which spans and artifacts a task leaves, and the audit that counts
  them.

## 3. What the runs check

Every run is exhaustive for its instance. `CHECK_DEADLOCK FALSE` appears everywhere
because every modelled system may stop for good: a closed predictor, a runtime that
has been torn down, a command that has ended, a directory nobody opens again.

`trace`, `measurement`, `learning` and `surroundings` check several components
one at a time: an initial choice `part` says which one moves, and the others stay
in one initial state. These components meet only in values that each module leaves
open (a report may be lost, a measurement may fail, a batch may be rejected), so
a product of their state spaces would add nothing but size.

| Run | Instance | Question |
|---|---|---|
| `store` | 2 files with 2 versions, 4 generation numbers, power losses (no symmetry: a refinement is checked) | crash, failure or power loss at every file operation: is the commit whole, a damaged one never learned from; is the directory an `AtomicCommit`? |
| `kb` | one execution whose process dies and restarts; or two executions, a flush, a close and its retry | what was acknowledged survives; nothing lost or twice; everybody is answered |
| `admission` | a launched and a marker call, 2 slots, budget 2, demands 1 and 4 | budget, lease ownership, fence of an aborted runtime |
| `lifecycle` | a launched execution with everything, 2 exit reports; or with a marker execution, a scope handler, abort and drain | measured once, quiet when said, evidence used, exits settled |
| `trace` | 1 span with 2 captures, 1 disk error, 1 crash, a close; 2 streams at a time; 1 plain call | acknowledged is durable, nothing twice, close is complete; what the proxy records is what the client got |
| `measurement` | launcher in 3 modes with 3 faults; 2 commands on one source with 3 cgroups, ring of 1; 2 calls over 3 ticks; 2 executions for 1 counter group; a tool that forks once beside another process; 2 calls and 2 execs; both kinds of place; 3 entries, a queue of 1, an execution | does each measurement belong to what it is said to be of, and does measuring not disturb |
| `learning` | 16 commands of up to 3 clauses and 3 processes; 4 executions of which 2 old, 2 crashes; 4 rows, 3 argument vectors, 2 views; 7 rows in 2 repositories, 3 ticks | labels true, executions held once, answers exact |
| `surroundings` | 3 registrations in 2 processes; 3 calls of a run with 2 writers; 3 tasks, 1 retry, 1 or 2 workers; a run of 2 tasks, 2 invocations, 2 faults; an agent with 2 descendants, 2 faults; 2 bridged calls sent twice, 2 faults; 2 or 3 audited calls | clean ends, isolated batches, nothing taught or run twice, true verdicts, everything ends |
| `telemetry_rollback`, `scope_root`, `lattice_replay`, `audit` | small instances of the same modules | findings, section 5 |

Properties, by what would have to go wrong:

* `CurrentIsWhole`, `NeverLearnsFromTornSnapshots`: numbering,
  trimming and restoring meet a directory left by an earlier failure or a commit
  damaged by a power loss. `ImplementsAtomicCommit`: the order of any two file
  operations is wrong.
* `DurableWhenTold`, `ExactlyOnce`: a failed batch, a retry, a late barrier, a
  close or a restart drops, repeats or forgets an observation. `CallersReturn`: the
  idle exit of the worker, or the retry of a close, leaves a caller waiting.
  `LatticeNeverAheadOfClause`: the two backends are saved out of step. (The other
  way round happens: a save between the learning and the enqueue commits the
  clause without its lattice row. The code accepts this.)
* `WithinBudget`, `RunningHoldsItsLease`: expiry, withdrawal, binding and release
  by different names in every order. `FinalizedIsRetired`, `ClosedRuntimeIsFinal`:
  calls in flight while their runtime is aborted.
* `MeasuredOnce`, `MeasurementStands`: several tasks finish one collector, with and
  without the launcher's status. The second excepts one window of the code: a start
  that has registered its run and not yet published "started" overwrites the
  summary of a finish that was faster. `QuietWhenSaid`: abort and drain look at five
  maps in some order while tasks move work between them. `ExitIsSettled`: a
  completion has cancelled the fallback or the garbage collection and then fails or
  is cut off; it excepts collectors that were left behind.
* `EachOnce`, `ClosedIsComplete`, `ImplementsAcknowledgedStore`: a record is queued
  by one thread, written by another, and flush, finalisation, close, a disk error
  or a crash come between. `CapturedAsAnswered`: split events, errors inside a
  stream, cancellation at any await; a capture says "completed" only of what the
  client was given, and an idle runtime has left its records.
* `PayloadGuarded`, `ExitIsTruthful`, `MeasurementEnds`: replies are lost, the first
  child is replaced, signals arrive between gate and wait.
* `OkIsComplete`, `FilterMatchesLeases`: losses become known late, leases of one
  cgroup come and go, an acquire or an extension fails half way. The first excepts
  the events that the code loses without noticing: those still on their way when
  the 30 ms are over, and those of a cgroup of which a failed acquire took another
  lease's reference; the second excepts these cgroups.
* `LearnedIsTheCalls` (a memory peak, a counter profile, a CPU time), `ExecIsOneCalls`,
  `ScopeIsItsOwn`: a measurement, a docker exec or a cgroup is given to a call although
  it is (partly) another one's. A memory peak may be another call's too if that call
  was given up or was not watched before the window was over; a completion that took
  the record of another call is excepted from `ExecIsOneCalls`.
* `GeneratorKeepsOff`: a help container runs beside a measured execution that was not
  yet popped, a provider
  is asked again for what was answered, or `close()` leaves something behind.
* `LabelsAreTrue`: a valid profile names the wrong processes or I/O for a clause.
  It excepts commands in which a clause that never executed anything has a double.
* `EachHeldOnce`: crash and replay hold a measurement twice or never; known
  exceptions are in section 5. `AnswersAreExact`: an answer uses a row of the future
  or misses one of the past, after forks, reloads and rows in another order.
* `BatchIsIsolated`, `QuietWhenTold`, `RunsEndClean`, `StopsForTheLastOnly`,
  `EveryoneEnds`: retries, cancellation and failures of one step of a shutdown. A
  plugin leaves no sidecar behind but a stray: one its signal did not reach.
  `PassedIsMeasured`: numbers of the audit agree although records are missing.
* `RunLearnsOnce`: an interruption, a kill or a resume of an online run teaches a task
  twice, loses or repeats its row, or calls a run finished whose knowledge was not
  saved. It excepts invocations that began with the flag of an earlier barrier
  (section 5).
* `ToolsAreOwned`: a repeated call, a failing gate, a deadline or the end of the agent
  runs a command twice, lets the sidecar be told that a runtime is over while a
  command or the worker lives, or deletes the scope of a worker that is alive.

Why the bounds are enough. Two generations are kept and one is being written, so a
fourth number lets a trimming decide about an orphan next to two commits. With
batches of two, three kinds of observation and a barrier, batches are full, short
and ended by a barrier; a close is a second barrier beside the flush. Demands of 1
and 4 (clamped to the budget of 2) make the CPU budget refuse a call that the two
slots would admit. A third process or clause is the first that can be exchanged
with another while a third party looks on; longer commands repeat the same edges.
Two leases, calls or executions are the smallest number that share something, and
the bounded resources (ring, queue, recent samples, remembered answers, counter
groups) have size one so that they overflow. Every property of every passing run
is broken by at least one plausible mutation of a definition on its own instance
(`mutants`), so no instance is too small for the case to occur.

Fairness. `kb`: the worker is a live thread, an admitted operation runs to its end,
the closing thread goes on when what it waits for has happened; no caller has to
flush or close, and no process has to die. `lifecycle`: tasks of the event loop and
worker threads go on and timers fire; launchers, hooks, aborts and sweeps owe
nothing. `measurement`: the launcher's next step and its children's ends, the
poller and the finishing of a command; faults are not fair, retries are bounded.
`surroundings`: worker threads, the supervisor, signals that have been sent and
processes that were killed; a registration that began ends and a plugin is
eventually shut down; the thread of a bridged task and the handlers of its bridge go
on, and commands end; nothing that fails has to fail. An agent itself owes nothing:
the deadline is a fair step of the worker.

## 4. What is proved

Nineteen modules have theorems, in eight modules of proofs that TLAPS checks for all
values of the constants that satisfy the module's assumption. `PluginProofs` and
`BenchmarkProofs` extend `MCSurroundings`, `MeasurementProofs` extends `MCMeasurement`,
`TraceWriterProofs` extends `MCTraceWriter`: these three bring the modules of several
components together, leave the constants of those that are proved about open, and name
their properties. `Host!Spec` is the `Spec` of `HostTask`, some of whose variables have
another name there, and likewise for the others. The assumptions say that sets whose
members are counted or enumerated are finite, that bounds are numbers, and that names
that stand for nothing are no member; TLC evaluates each of them in the runs. A theorem with a property states the definition that a run of section 3 checks:
the run explores one instance, liveness included, the theorem covers the rest.

| Module | Theorems | Invariant |
|---|---|---|
| StateStore | `TypeCorrect`, `CurrentAlwaysWhole`, `TornNeverLearned`, `CurrentMonotone`, `StoreImplementsAtomicCommit` | `StoreInv` |
| Admission | `AdmissionTypeCorrect`, `SlotsNeverExceeded`, `BudgetNeverExceeded`, `RunningKeepsItsLease`, `AbortRetiresItsRuntime`, `ClosedRuntimeStaysFinal` | `AdmissionInv` |
| KbWriter | `AcknowledgedIsDurable`, `LearnedExactlyOnce`, `CommittedInStep` | `KbInv` |
| ExecutionLifecycle | `FinishedOnce`, `AnswersAreQuiet`, `MeasurementsStand` | `LifecycleInv` |
| TraceWriter | `TracesAreExact`, `CloseIsComplete`, `BarriersHold` | `Inv` |
| Launcher | `PayloadIsGuarded`, `ExitsAreTruthful`, `GatesAreFinal` | `LauncherInv` |
| SharedSidecar | `SidecarStopsForTheLast` | `SidecarInv` |
| PluginTrace | `SpansEndWithTheirRun` | `TraceInv` |
| SharedTelemetry | `FilterStaysLeased`, `FilterIsExact`, `OkSummariesAreComplete` | `SourceInv`, `CountedInv`, `DeliveryInv`, `CallInv`, `ReachInv` |
| ExecObserver | `ExecsAreOneCalls` | `ObserverInv` |
| ExecutionScope | `ScopesAreTheirOwn` | `ScopeInv` |
| BatchRunner | `BatchTypeCorrect`, `BatchesAreIsolated` | `BatchInv` |
| BenchmarkRun | `RunTypeCorrect`, `LearnsOnce`, `ResumedUntaught` | `RunInv` |
| HostTask | `AgentsAreQuiet` | `HostInv` |
| BridgedTask | `ToolsStayOwned` | `BridgeInv` |
| TaskVerdict | `AuditsAreSound` | `VerdictInv` |
| RuleGenerator | `GrammarsKeepOff` | `RuleInv` |
| EnvironmentMemory | `PeaksAreAlone` | `MemoryInv` |
| LlmProxy | `RecordsAreTrue` | `ProxyInv` |

* **StateStore.** `CurrentIsWhole` alone is not inductive: that trimming spares
  `CURRENT` needs `TargetIsNewest` (the directory being written is the highest), which
  needs `NoGapAboveRoot` (every number above the root generation up to the highest
  directory is taken, so the first free one is above them all), which relates
  `state.json`, restored last, to the directories. `CopiesTheWorkingSet` says the
  copies of a running checkpoint are those of the working set, so the commit is the
  abstract one; `WorkIsReadable` that torn snapshots stay out of a running process.
  `StoreImplementsAtomicCommit` goes step by step with the mapping of section 2, power
  losses included.
* **Admission.** `AdmissionInv` adds to the type invariant that a registered
  execution that has not ended holds a bound lease unless a completion or teardown
  gave it back, that reported and aborted executions are retired, that a closed
  runtime has no provisional lease and no new record, that a lease has a demand
  and that a runtime is aborted once. `SlotsNeverExceeded` is the half of
  `WithinBudget` that counts, `BudgetNeverExceeded` the whole of it. Its other half is a
  sum over a finite set, by the recursive definition of the community modules. That the
  recursion has a value at all, and that it grows by a member's demand when the member
  is added, is proved from the least-number principle (`WFMin` over `Nat`): of the sets
  for which it fails, take a smallest one.
* **KbWriter.** The theorems start from any progress of the executions (`AnySpec`),
  which includes the initial states of `Spec`. `OnePlace`: an observation that was
  sent is in the queue, the worker's hand, the retry batch or published, in one of
  them and once; while the hand is not applied it shares nothing with the other
  three. `LearnedIsSent` relates these places to how far each operation has come, and
  both give `ExactlyOnce`. `PromiseInv` follows what a barrier covers: it is ahead of
  the barrier in the queue, then in the hand or published, then published, then in
  the captured snapshots, then committed. `InStep` says it of the two snapshots that
  are captured together and written one by one. For a close, `IntakeStopped` and
  `StopIsLast` say that nothing enters behind the last barrier, whose save is then
  all there is (`SavedAtClose`). What was hard for a test is easy to see here: each
  part is about a queue of any length with barriers anywhere.
* **ExecutionLifecycle.** `CollectorInv`: a run belongs to one start, and a finish that
  popped it is the only one that has; `measured` is then 0 until it stops.
  `AbortInv`: executions the abort task has dealt with are quiet for good, which needs
  `StartingInv` (in a closed runtime nobody is being started). `DrainInv` keeps what
  the drain found. `MeasurementsStand` is an action property and excepts the window in
  which a start publishes late.
* **TraceWriter.** `Inv` has seven parts. `ControlInv`: the writer ends only behind
  `Stop`, and a buffer that is not empty means an error that sticks. `FreshInv`: no
  record exists of what has not begun or is still open. `PlaceInv`: a record is queued
  or written, and in one position. `HeadInv`: a file's header is in it or in front of
  all that is queued for it. `BarrierInv`: what a handler was promised is on disk or in
  front of its marker. Every action but the writer's and the crash only appends fresh
  records (`Grows`); one group of lemmas shows that this keeps each part, and the
  actions differ only in what they append. `BarriersHold` is the refinement of
  `AcknowledgedStore`.
* **Launcher.** `OneGate`: at most one gate opens, and it is that of the child waited
  for; `OpensStarted`: it opens behind the stored start; `ReportedIsGone`: an exit is
  reported after the children that passed a gate have gone. `GatesAreFinal` says of
  every step that a decided gate stays decided.
* **SharedSidecar.** `EntryInv`, of each process: the count of an entry is the number
  of its registrations that have joined or are ready; an entry that nobody counts on
  is gone or stopping; whoever counts on it is as far as it is (none is ready while the
  child launches); and a child that runs belongs to an entry in use: a signal that
  fails makes it a stray, since the entry is then gone. `StopsForTheLast`, an action
  property of it, speaks of the attempts too: nobody is ready when a signal is sent.
* **PluginTrace.** `CallInv` relates the progress of a hook to the ends that were written
  and to its run: a span in `active` or `todo` has no end, any other that has begun has
  one for its start, and who is past the wait for its writer finds a handle until the
  run is done. `WriterInv`: a writer that is awaited has no handle yet.
* **SharedTelemetry.** All three theorems hold for scopes of any sets of cgroups, with
  acquires and extensions that fail between any two. `CountedInv` says that references
  are the leases, but for cgroups in `overdrawn`, which count fewer; it is what
  `Halfway` keeps because the groups before the failure are in the lease. `ReachInv`
  says that every event of a running command is in the buffer of its lease, in the
  ring or in the poller's hand, or was kept back in an overdrawn cgroup, as long as the
  losses counted at its start have not grown; so what a slice misses is on its way.
* **ExecObserver.** `ObserverInv`: whatever a call is matched with, told, bound to or
  answered is in `consumed`, and what is taken was not. That records are dropped and made
  again does not matter, because `consumed` only grows; a completion that clears the
  match keeps the answer. A completion that takes the record of another call is in
  `strayed` from then on, and two calls that are not have no exec in common.
* **ExecutionScope.** `PlaceInv` says where the three processes can be, `GatedInv` that
  nothing is known before `/started`. `ReadInv`: an execution that was moved has the
  exclusive scope everywhere and none of its processes is left where it began; one
  that was not has only scopes of that place. `OpenedInv`: what was required is there
  when the gate opens.
* **BatchRunner.** `FlowInv`: tasks start in order, serially one after the other, and the
  main thread goes on when nobody works. `ShareInv`: serially, nobody else publishes
  between a task's start and its end, so what the task publishes contains what was
  shared. `WholeInv`: a mixed generation comes from a task that waits to be handled as
  failed, after which no task starts. `CountInv`: the counters are the handled tasks.
* **HostTask.** `TreeInv` says that every set of living processes has a member whose
  parent is outside of it: there is no cycle that the supervisor could not see. So if
  no child of the supervisor lives, nobody does, however orphans were adopted.
  `WorkerInv` is what the worker knows at each step about the supervisor's answer and
  the sweep of the sandbox.
* **BridgedTask.** `LockInv`: who executes has the lock and has no result. `RanInv`: a
  command that ran once has its result, or is executing, or is lost, or can never
  execute again (`NeverAgain`: no worker, no container, a bridge that closes, a gate
  after the deadline). `OwnerInv`: what is alive at each step of the task's `finally`.
* **TaskVerdict.** `VerdictInv` adds to the property that nothing is recorded after the
  verdict. The argument is about counts: as many full spans as spans, so all of them
  are full (`FS_Subset`); as many paths as calls, so each has its own (`FS_Surjection`).
* **BenchmarkRun.** Whatever has an agent or has taught something is active or reported
  in the saved file (`FileInv`), and a saved file without active tasks reports all
  tasks or none. So an invocation that goes on finds that nothing was taught
  (`NothingTaught`, `ResumedUntaught`), and all pairs belong to the last invocation
  (`KnowledgeInv`), each task in one place of its pool (`PoolInv`). `FlagInv` says what
  `kb_flush_complete` promises in memory and in the file.
* **RuleGenerator.** `ProbeInv`: there is a container exactly while the worker probes,
  under the lock, and no execution is starting or active then. `QueueInv` and `HoldInv`: a key that is
  queued is in the queue, in one place; one that is generated is in the worker's hand.
  `BudgetInv` counts: what was asked and what was paid for never exceeds the counters.
* **EnvironmentMemory.** `MemoryOf`, of each call: once its task is watched for it
  (`attended`), it stays watched since that moment, or is given up, or its window is
  remembered for the calls that end later. So a call that was attended before
  another's window was over is still among those the other is compared with, or was
  given up. Two calls of one task watch directories of which one contains the
  other, because both are prefixes of one path.
* **LlmProxy.** `CallInv`, of each call: what is kept is the data of a beginning of the
  answer; while the call is under way, what the client got and what is about to be
  passed on are together what is kept; a failure is the last thing the client is told.
  `CountInv`: the activity of a runtime that was not released is the number of its
  streams under way. The data of an answer is a recursive function of its events. That
  it exists, and how it goes with concatenation and with the merging of reasoning, is
  proved from the least-number principle too.

Assumptions on constants beyond finiteness: hooked, owning, yielding and marked
executions are executions; an execution and a span have one runtime, a writer of the
plugin has one run, a registration one process; a batch has at
least one item, a run at least one task and one worker, an exit at least one report; the names of
a free lock and of a probe are no executions; paths are sequences of names; an answer
that is not streamed holds a message or an error, never both: this is the provider's
protocol, and the code would record an answer with both as completed.

Only model-checked, and why:

* All liveness (`CallersReturn`, `ExitIsSettled`, `MeasurementEnds`, `EveryoneEnds`):
  TLAPS proves none of it under fairness, and ENABLED is out of its reach.
* `LabelsAreTrue`, `AnswersAreExact`, `EachHeldOnce`: what they speak about is computed
  by recursion over a log or a trie. The library's induction theorems cannot be
  instantiated here, so each such definition needs its own proof that it exists, as the
  sums and the data of an answer above; `ClauseKb` declares a RECURSIVE operator besides
  (nested command wrappers). No module that has a theorem, or is used by one, reaches it.
* `LearnedIsTheCalls`: of its parts, `EligibleIsAlone` of `EnvironmentMemory` is proved
  (`PeaksAreAlone`). `CountersAreWhole` counts with SelectSeq, which the provers do not
  expand, and `CpuIsTheCalls` is about a recursion over the log of processes.

## 5. Where the code and its documentation differ

Four runs check a sentence of the repository that the code does not keep:

* `telemetry_rollback`: a filter entry stays until the last of its leases is released
  (`test_tool_resource_telemetry.py:167`: after 127 of 128 releases
  `len(source.bpf["allowed_cgroups"].values) == 1`). When a filter write raises, an
  acquire takes a reference back from every cgroup of its scope, also from those it
  had not counted yet (`telemetry.py:3688-3692`): two leases hold a cgroup that is then
  counted once, and the release of the first deletes the entry under the second.
* `scope_root`: an independent `docker exec` root needs proof of its root PID
  (`tool_resource/README.md:59-63`). A sandbox discovered just before `/started`
  starts the collector without it, and `/started` only awaits that start.
* `lattice_replay`: "without double-counting snapshot-plus-trace startup input"
  (`lattice_kb.py:157-160`). A missing metric changes the key of an observation, so
  its replay is another one.
* `audit`: a test (`test_swe_rebench_runner_inspection.py:730`) accepts a task with
  semantic rejections; its spans say that no observation was added. The code adds
  the mapped clauses of a rejected call, and the audit then fails the task
  (`pip x; make`).

The models contain the following windows too. Where a property had to except one,
the exception is written in it; elsewhere no property speaks about it.

*Store and KB.* The two highest directories are kept, so an orphan above `CURRENT`
costs the previous commit (`store.py:232` against `:227`). Snapshot copies are not
synced before `CURRENT` (`:215` against `:145-148`). An item the worker has taken
and not yet marked in flight is in neither place that `pending()` reads. A frozen
start reads snapshots only.

*Admission and lifecycle.* A completion without a lease id leaves a bound lease
(`app.py:2120` against `leases.py:119-122`). An abort that meets a record swept in
the meantime fails with a `KeyError` (`executions.py:69` against
`app.py:1833-1834`). Drain does not see the finishing worker of a swept record
(`app.py:1683` against `:1107-1108`). The scope handler starts collectors of
executions that have exited since it read the list.

*Scope and launcher.* A launcher that cannot name its child (identity "none") in a
sandbox gets the container's process taken for the host's. A launcher that is
killed while its first child is stopped leaves it stopped; signals between the gate
and the installation of forwarders are lost, and the degraded mode never installs
them; an owned cgroup leaks when `Popen` raises; the scope wrapper waits 65 s while
the start timeout may be set to 600 s; a `waitpid` error in the fork path returns
without an exit report.

*Measurement.* The 30 ms wait of a finish is the only one: an event delivered later
is lost silently (`late`), and so is one of a cgroup whose filter entry went with an
overdrawn reference (`dark`): the summary may still be "ok". After an extension that
failed half way the routes lack the groups that were added. A poll error after the
check is not seen by the call that is finishing. Withheld telemetry does enter the
knowledge base (`tool_resource/README.md:36` against `sdk.py:467`). A call whose scope
has no cgroup at its before-hook runs without a row (`environment_memory.py:203-205`),
and one that is bound late or anew (`tool_runtime.py:413-439`, a repeated `/started`)
counts from that moment: another call's peak may then contain it and be eligible
(`attended` in `EligibleIsAlone`). After a tombstone of `PmuCollector` was evicted, a
repeated finish answers "not_started". A completion that is repeated after it failed
behind `infer_scope` (`app.py:2242-2247`), or comes for a call that was not observed,
takes the record of the only other call of its tool: it is given that call's exec, and
that call finds none (`docker_exec.py:401-419`).

*Labels.* A builtin whose `&&` successor's descendant executes the same words is
mapped to the builtin's clause (`clause_bridge.py:1219`); so is a skipped clause
whose controller cannot be proved. A builtin between two programs of a pipeline
splits it, so that totals are summed (`runtime_kb.py:1072-1087` against its
docstring).

*Learning.* `observe_completion` does not learn a call with duration 0, the replay
does (`tool_runtime.py:282` against `trace.py:251-270`). `merge_historical` counts a
rejected row as added. Clause identities are positional; a legacy binding looks at
the first key; DELETE of a sandbox scope calls `finalize_runtime` without the
activity fence; publishing a fork reverts `_last_query_ts`.

*Trace and proxy.* Metadata is marked written when it is queued (`trace.py:709`).
`model_call_started` answers `stored: True` for what is in memory only. A second
close after a failed one returns silently. A stream that ends without `[DONE]` is
recorded as completed; `data:` without data counts as `[DONE]`; a plain call that
fails with an exception without a message is recorded as completed with status 502
(`Silent`); plain calls are no activity, so drain and abort miss them; a streamed
body that nobody reads leaks its activity; releasing a runtime drops the count of
streams under way.

*Rules.* A container removal that times out leaves the container running; a probe
started in the tail of an execution (after the run was popped, before its window
is closed) runs beside it, which `ProbesRunAlone` excepts (`closing`); a held gate blocks `begin_execution`; a script with a NUL
byte raises `ValueError` in `ast.parse` on Python 3.11 and before, which ends the
worker for good although "An inaccessible workspace must not kill the queue.";
an entry dropped from a full queue is never retried.

*Plugin.* A registration that joins an entry whose sidecar has crashed is not
restarted; the `child.kill()` of a launch that timed out ends the shell only; a sidecar
that cannot be signalled (EPERM under `sudo`, an `error` event) or that its command put
in the background goes on when its entry is deleted (`stray` in `SharedSidecar`), and the
next registration takes it for a foreign one; a failing stop fails the registration
that waits for it; a late `after_tool_call` reopens a writer that leaks; a lookup
that joins a creation `closeWhere` waits for can lose its record; after its TTL a
correlation may be another run's.

*Online run.* A resume of an invocation that was interrupted between starting its
sidecar and claiming tasks begins with `kb_flush_complete: true` of the earlier
barrier; if its process is then killed, or interrupted in its own barrier, the flag
stays, and the next resume returns the report as finished although its last
observations may be lost (`stale` in `FinishedIsSaved`). In fact a run that is resumed
with work to do has never begun a task (`ResumedUntaught`): `runner.py:193-200` refuses
every other one. Two concurrent resumes of one directory are not excluded.

*Bridged tools.* `exec_control.py:122-128` says of a refused start "so the gated payload
must not run unobserved and the tool call fails closed"; `backends.py:519-533` releases
the payload all the same. "tool bridge backend did not stop; unsafe to drain"
(`tool_bridge.py:94`) is raised into the `finally` that drains, after it has stopped the
container. A command whose output cannot be decoded, or whose `docker stop` failed, is
not among the answers, so that a repeated call runs it again (`lost` in `RunsOnce`).
When the thread of a call kills the worker by force, or the worker dies by itself, only
that call is told that the cleanup is unconfirmed; the task finds a dead worker and
drains although descendants may live (`unheard` in `ToldIsQuiet`). The sidecar then
refuses to delete the scope, and the task raises.

*Benchmark.* Retries share a directory; when the pool is aborted, running tasks
finish and are not reported; the merge reads the directories of failed and of
never-started tasks; the discovery thread may outlive its 2 s join; a thread that
fails to start after `Popen` leaks the agent; a supervisor ended by SIGKILL is
taken for confirmed; the agent's own exit code 124 reads as a timeout; a task whose
agent failed and whose spans are all lost is "not_evaluable"; unparsable lines only
warn; an eligible call that ran nothing but builtins fails the audit.

## 6. Not modelled

* `LeaseManager.renew` (no handler calls it), tokens and their comparison, request
  validation, authentication, the decision cache and the caps of 10,000 of the sets
  that recognise repeated events.
* `initialize_state` dying before `state.json` exists; the seed.
* Call bindings of the predictor (`finalize_runtime`), replay fidelity, the assembly
  of a prediction from the answers of the knowledge bases.
* What drain does after it found the runtime idle: two flushes, which may fail.
* A batch that can never be applied: `KbWriter` lets any batch fail any number of
  times and does not single out the observation that always fails.
* The grammar of command lines, the validation of generated rules, feature and
  statistics arithmetic: pure functions of their inputs, abstracted to what the
  properties tell apart. The generator's queue has no liveness: overlapping
  executions may starve it.
* In `ToolWindow`: reuse of process ids, network, RSS and CPU peaks, the cgroup
  fallback, a wrong inference of the container. In `ExecutionScope`: native-runtime
  endpoints, moves after `/started`, collisions of cgroup names. In
  `EnvironmentMemory`: expiry and truncation. In `ClauseBridge`: timeouts, merging of
  CPU and RSS, processes that reuse an id. In `PmuCollector`: a begin after a
  fail-open release. In `TraceWriter`: telemetry records.
* In `HostTask`: a task without a deadline, reuse of process ids; workspace
  preparation. In `BatchRunner`: images, command lines, reports. In `BenchmarkRun`: two
  invocations at a time, the choice of tasks, ports. In `BridgedTask`: Compose files,
  the turns of an agent one by one, conflicting duplicates of a call id.
* Configuration, contracts, topology, offline tools: no state that several parties
  change.

## 7. Plan

Done: every component of section 1 that has state has a module; nineteen modules,
among them both refinements, have proofs.

Next, in this order:

1. Proofs: that every step of `KbWriter` is one of the abstract store of
   `AcknowledgedStore`; the rest of `LearnedIsTheCalls`, after definitions whose
   existence can be proved as that of the sums.
2. `KbWriter` over `StateStore`: the commit step replaced by the file operations
   of a checkpoint.
3. A composition of the drain of `ExecutionLifecycle` with the flushes it awaits
   afterwards; property: an answered drain has made durable what was reported
   before it.
4. The decision cache, its caps and the provisional lease behind a cached answer.
