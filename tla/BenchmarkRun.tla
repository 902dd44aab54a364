---------------------------- MODULE BenchmarkRun ----------------------------
(***************************************************************************)
(* One online benchmark run (benchmarks/runner.py, run) from its first       *)
(* invocation through its resumptions.  A pool of workers executes the tasks, *)
(* the run's sidecar learns from them in its own knowledge base, and run.json  *)
(* says which tasks are reported, which may have taught something (active),     *)
(* and whether the final barrier has saved it all.  The process, its sidecar and  *)
(* its agents may be killed separately and at any step.                         *)
(*                                                                         *)
(* One invocation at a time; knowledge is a set of <<task, invocation>>.         *)
(***************************************************************************)
EXTENDS Naturals, FiniteSets

CONSTANTS Cases,         \* the tasks of the run
          Parallelism,   \* workers
          MaxStarts,     \* bound: invocations of run()
          MaxRunFaults   \* bound: steps that raise, processes that die

ASSUME RunAssumption ==
    /\ IsFiniteSet(Cases) /\ Cases # {} /\ Parallelism \in Nat \ {0}
    /\ MaxStarts \in Nat /\ MaxRunFaults \in Nat

VARIABLES
    saved,      \* run.json
    manifest,   \* the process's copy of it
    runner,     \* where the process is, "off" without one
    start,      \* invocations so far
    unclaimed,  \* task_iter
    claimed,    \* initial tasks and replacements that are not yet submitted
    future,     \* task -> its worker: "none" if it has no future
    done,       \* futures that wait() has returned and the loop not yet recorded
    attempted,  \* kb_flush_attempted
    agents,     \* <<task, invocation>> whose agent, or what it left, may still act
    server,     \* the sidecar: "none", "up"
    memory,     \* what its knowledge base holds
    disk,       \* what the run's kb directory holds
    taught,     \* history: all that any sidecar of the run has taken
    stale,      \* history: an invocation began with the flag of an earlier barrier
    accepted,   \* history: a resumption returned the saved report as finished
    runFaults

process == <<manifest, runner, unclaimed, claimed, future, done, attempted>>
knowledge == <<server, memory, disk, taught>>
outside == <<start, stale, accepted>>
runVars == <<saved, process, agents, knowledge, outside, runFaults>>

NoFile == [status |-> "absent", active |-> {}, rows |-> [c \in Cases |-> 0], bad |-> {}, flushed |-> FALSE]
Fresh == [NoFile EXCEPT !.status = "preparing"]
Reported(file) == {c \in Cases : file.rows[c] > 0}

Futures == {c \in Cases : future[c] # "none"}
Ended == {"ok", "failed", "raised"}

RunInit ==
    /\ saved = NoFile /\ manifest = NoFile /\ runner = "off" /\ start = 0
    /\ unclaimed = {} /\ claimed = {} /\ future = [c \in Cases |-> "none"] /\ done = {}
    /\ attempted = FALSE /\ agents = {}
    /\ server = "none" /\ memory = {} /\ disk = {} /\ taught = {}
    /\ stale = FALSE /\ accepted = FALSE /\ runFaults = 0

RunFault == runFaults < MaxRunFaults /\ runFaults' = runFaults + 1

RunFiles == [status : {"absent", "preparing", "running", "completed", "failed"},
             active : SUBSET Cases, rows : [Cases -> Nat], bad : SUBSET Cases, flushed : BOOLEAN]

RunTypeOK ==
    /\ saved \in RunFiles /\ manifest \in RunFiles
    /\ runner \in {"off", "prepare", "claim", "submit", "wait", "record", "cancel", "join",
                  "collect", "flush", "settle", "unwind", "stop", "write"}
    /\ start \in Nat
    /\ unclaimed \subseteq Cases /\ claimed \subseteq Cases /\ done \subseteq Cases
    /\ future \in [Cases -> {"none", "queued", "running"} \cup Ended]
    /\ agents \subseteq Cases \X {start} /\ server \in {"none", "up"}

-----------------------------------------------------------------------------
(* Invocations.                                                              *)

Begin(file, tasks) ==
    /\ start < MaxStarts /\ start' = start + 1
    /\ manifest' = file /\ saved' = file /\ unclaimed' = tasks
    /\ runner' = "prepare" /\ attempted' = FALSE
    /\ claimed' = {} /\ done' = {} /\ future' = [c \in Cases |-> "none"]
    /\ UNCHANGED <<agents, knowledge, runFaults>>

FirstStart ==
    /\ runner = "off" /\ saved = NoFile
    /\ Begin(Fresh, Cases)
    /\ UNCHANGED <<stale, accepted>>

\* Mutant: a run is resumed whatever its last process was doing.
MayResumeAnyway(file) == file # NoFile
MayResume(file) == file # NoFile /\ file.active = {}

\* The tasks that are not reported are run, with the saved report and its flags.
Resume ==
    /\ runner = "off" /\ MayResume(saved) /\ Reported(saved) # Cases
    /\ Begin(saved, Cases \ Reported(saved))
    /\ stale' = (stale \/ saved.flushed)
    /\ UNCHANGED accepted

\* Without its final barrier a run with all tasks reported is refused.
ReturnsReport ==
    /\ runner = "off" /\ MayResume(saved) /\ Reported(saved) = Cases /\ saved.flushed
    /\ accepted' = TRUE
    /\ UNCHANGED <<saved, process, agents, knowledge, start, stale, runFaults>>

\* The knowledge base is owned by one sidecar, so one that was left refuses another.
StartSidecar ==
    /\ runner = "prepare" /\ server = "none"
    /\ server' = "up" /\ memory' = disk
    /\ manifest' = [manifest EXCEPT !.status = "running"] /\ runner' = "claim"
    /\ UNCHANGED <<saved, unclaimed, claimed, future, done, attempted, agents, disk, taught,
                   outside, runFaults>>

Raises(at, then) ==
    /\ runner = at /\ RunFault
    /\ manifest' = [manifest EXCEPT !.status = "failed"] /\ runner' = then
    /\ UNCHANGED <<saved, unclaimed, claimed, future, done, attempted, agents, knowledge, outside>>

PrepareFails ==
    \/ Raises("prepare", "write")
    \/ /\ runner = "prepare" /\ server = "up" /\ runner' = "write"
       /\ manifest' = [manifest EXCEPT !.status = "failed"]
       /\ UNCHANGED <<saved, unclaimed, claimed, future, done, attempted, agents, knowledge,
                      outside, runFaults>>

-----------------------------------------------------------------------------
(* The pool.                                                                 *)

\* Mutant: tasks are handed out first.
PersistLater(owned) ==
    /\ manifest' = [manifest EXCEPT !.active = owned]
    /\ saved' = manifest

\* Ownership is persisted before a worker can produce an observation.
Persist(owned) ==
    /\ manifest' = [manifest EXCEPT !.active = owned]
    /\ saved' = manifest'

Claim ==
    /\ runner = "claim" /\ runner' = "submit"
    /\ \E first \in SUBSET unclaimed :
          /\ Cardinality(first) = Parallelism \/ first = unclaimed
          /\ Cardinality(first) <= Parallelism
          /\ claimed' = first /\ unclaimed' = unclaimed \ first
          /\ Persist(first)
    /\ UNCHANGED <<future, done, attempted, agents, knowledge, outside, runFaults>>

Submit ==
    /\ runner = "submit"
    /\ future' = [c \in Cases |-> IF c \in claimed THEN "queued" ELSE future[c]]
    /\ claimed' = {}
    /\ runner' = IF claimed = {} /\ Futures = {} THEN "flush" ELSE "wait"
    /\ UNCHANGED <<saved, manifest, unclaimed, done, attempted, agents, knowledge, outside, runFaults>>

\* The executor starts what is queued unless the loop has cancelled it.
TaskBegins(c) ==
    /\ future[c] = "queued"
    /\ future' = [future EXCEPT ![c] = "running"]
    /\ agents' = agents \cup {<<c, start>>}
    /\ UNCHANGED <<saved, manifest, runner, unclaimed, claimed, done, attempted, knowledge, outside,
                   runFaults>>

\* An executor that raises could not confirm that its agent is gone.
TaskEnds(c) ==
    /\ future[c] = "running"
    /\ \/ /\ future' \in {[future EXCEPT ![c] = how] : how \in {"ok", "failed"}}
          /\ agents' = agents \ {<<c, start>>}
          /\ UNCHANGED runFaults
       \/ /\ future' = [future EXCEPT ![c] = "raised"]
          /\ agents' \in {agents, agents \ {<<c, start>>}}
          /\ RunFault
    /\ UNCHANGED <<saved, manifest, runner, unclaimed, claimed, done, attempted, knowledge, outside>>

Wait ==
    /\ runner = "wait" /\ runner' = "record"
    /\ done' = {c \in Cases : future[c] \in Ended} /\ done' # {}
    /\ UNCHANGED <<saved, manifest, unclaimed, claimed, future, attempted, agents, knowledge,
                   outside, runFaults>>

\* record_result appends the row; any executor exception is fatal after that.
Row(c) ==
    manifest' = [manifest EXCEPT !.rows[c] = @ + 1,
                                 !.bad = IF future[c] = "ok" THEN @ ELSE @ \cup {c}]

Record(c) ==
    /\ runner = "record" /\ c \in done /\ future[c] # "raised"
    /\ Row(c)
    /\ done' = done \ {c} /\ future' = [future EXCEPT ![c] = "none"]
    /\ \/ /\ unclaimed = {} /\ UNCHANGED <<unclaimed, claimed>>
       \/ \E next \in unclaimed :
             /\ unclaimed' = unclaimed \ {next} /\ claimed' = claimed \cup {next}
    /\ UNCHANGED <<saved, runner, attempted, agents, knowledge, outside, runFaults>>

RecordRaises(c) ==
    /\ runner = "record" /\ c \in done
    /\ \/ future[c] = "raised" /\ Row(c) /\ UNCHANGED runFaults
       \/ Row(c) /\ RunFault
       \/ UNCHANGED manifest /\ RunFault
    /\ runner' = "cancel"
    /\ UNCHANGED <<saved, unclaimed, claimed, future, done, attempted, agents, knowledge, outside>>

Recorded ==
    /\ runner = "record" /\ done = {}
    /\ Persist(Futures \cup claimed)
    /\ runner' = "submit"
    /\ UNCHANGED <<unclaimed, claimed, future, done, attempted, agents, knowledge, outside, runFaults>>

\* An interrupt, or a report that cannot be written.
PoolRaises ==
    /\ runner \in {"claim", "submit", "wait", "record"} /\ RunFault
    /\ runner' = IF runner = "claim" THEN "unwind" ELSE "cancel"
    /\ \/ UNCHANGED manifest
       \/ runner = "record" /\ done = {}
          /\ manifest' = [manifest EXCEPT !.active = Futures \cup claimed]
       \/ runner = "claim" /\ manifest' \in {[manifest EXCEPT !.active = first] : first \in SUBSET unclaimed}
    /\ UNCHANGED <<saved, unclaimed, claimed, future, done, attempted, agents, knowledge, outside>>

\* What has not begun is cancelled, everybody else is told and joined.
Cancel ==
    /\ runner = "cancel" /\ runner' = "join"
    /\ future' = [c \in Cases |-> IF future[c] = "queued" THEN "none" ELSE future[c]]
    /\ UNCHANGED <<saved, manifest, unclaimed, claimed, done, attempted, agents, knowledge, outside,
                   runFaults>>

JoinWorkers ==
    /\ runner = "join" /\ \A c \in Cases : future[c] # "running"
    /\ runner' = "collect"
    /\ UNCHANGED <<saved, manifest, unclaimed, claimed, future, done, attempted, agents, knowledge,
                   outside, runFaults>>

\* Mutant: the rows that were recorded before the loop raised are forgotten.
UnrecordedAny(c) == future[c] # "none"
Unrecorded(c) == future[c] # "none" /\ manifest.rows[c] = 0

Collect ==
    /\ runner = "collect"
    /\ manifest' = [manifest EXCEPT
          !.rows = [c \in Cases |-> IF Unrecorded(c) THEN @[c] + 1 ELSE @[c]],
          !.bad = @ \cup {c \in Cases : Unrecorded(c) /\ future[c] # "ok"},
          !.status = "failed"]
    /\ runner' = "unwind"
    /\ UNCHANGED <<saved, unclaimed, claimed, future, done, attempted, agents, knowledge, outside,
                   runFaults>>

CollectRaises == Raises("collect", "unwind")

-----------------------------------------------------------------------------
(* The end of an invocation.                                                 *)

\* Mutant: a barrier that raised counts.
BarrierAlways(ok) == TRUE
BarrierHolds(ok) == ok

\* flush_all_kb_updates drains every runtime and then saves.
Barrier ==
    \E ok \in BOOLEAN :
        /\ ok => server = "up"
        /\ ~ok => server = "none" \/ runFaults < MaxRunFaults
        /\ disk' = IF ok THEN memory ELSE disk
        /\ manifest' = [manifest EXCEPT !.flushed = BarrierHolds(ok)]
        /\ runFaults' = IF ok \/ server = "none" THEN runFaults ELSE runFaults + 1
        /\ attempted' = TRUE

Flush ==
    /\ runner = "flush" /\ Barrier /\ runner' = "settle"
    /\ UNCHANGED <<saved, unclaimed, claimed, future, done, agents, server, memory, taught, outside>>

\* An interrupt is not an exception of the barrier, and there is no second one.
FlushInterrupted ==
    /\ runner = "flush" /\ RunFault
    /\ attempted' = TRUE /\ runner' = "unwind"
    /\ manifest' = [manifest EXCEPT !.status = "failed"]
    /\ UNCHANGED <<saved, unclaimed, claimed, future, done, agents, knowledge, outside>>

Settle ==
    /\ runner = "settle" /\ runner' = "stop"
    /\ manifest' = [manifest EXCEPT
          !.active = {},
          !.status = IF manifest.flushed /\ manifest.bad = {} THEN "completed" ELSE "failed"]
    /\ UNCHANGED <<saved, unclaimed, claimed, future, done, attempted, agents, knowledge, outside,
                   runFaults>>

Unwind ==
    /\ runner = "unwind"
    /\ \/ /\ attempted /\ runner' = "stop"
          /\ manifest' = [manifest EXCEPT !.status = "failed"]
          /\ UNCHANGED <<disk, attempted, runFaults>>
       \/ /\ ~attempted /\ runner' = "stop" /\ Barrier
    /\ UNCHANGED <<saved, unclaimed, claimed, future, done, agents, server, memory, taught, outside>>

\* Interrupted once more, it leaves its sidecar behind.
UnwindInterrupted ==
    \/ Raises("unwind", "write")
    \/ /\ runner = "stop" /\ RunFault /\ runner' = "write"
       /\ UNCHANGED <<saved, manifest, unclaimed, claimed, future, done, attempted, agents, knowledge,
                      outside>>

\* A sidecar that is told to stop saves what it can.
StopSidecar ==
    /\ runner = "stop" /\ runner' = "write"
    /\ server' = "none" /\ disk' \in {disk, memory} /\ memory' = {}
    /\ server = "none" => disk' = disk
    /\ UNCHANGED <<saved, manifest, unclaimed, claimed, future, done, attempted, agents, taught, outside,
                   runFaults>>

Off ==
    /\ runner' = "off" /\ manifest' = NoFile /\ attempted' = FALSE
    /\ unclaimed' = {} /\ claimed' = {} /\ done' = {} /\ future' = [c \in Cases |-> "none"]

WriteReport ==
    /\ runner = "write" /\ Off
    /\ \/ saved' = manifest /\ UNCHANGED runFaults
       \/ UNCHANGED saved /\ RunFault
    /\ UNCHANGED <<agents, knowledge, outside>>

-----------------------------------------------------------------------------
(* The sidecar, the agents, and deaths.                                      *)

Teach(a) ==
    /\ a \in agents /\ server = "up" /\ a \notin memory
    /\ memory' = memory \cup {a} /\ taught' = taught \cup {a}
    /\ UNCHANGED <<saved, process, agents, server, disk, outside, runFaults>>

Save ==
    /\ server = "up" /\ disk' = memory
    /\ UNCHANGED <<saved, process, agents, server, memory, taught, outside, runFaults>>

ServerDies ==
    /\ server = "up" /\ RunFault
    /\ server' = "none" /\ memory' = {}
    /\ UNCHANGED <<saved, process, agents, disk, taught, outside>>

\* An agent that nobody has joined ends by itself.
AgentEnds(a) ==
    /\ a \in agents /\ (a[2] = start /\ runner # "off" => future[a[1]] # "running")
    /\ agents' = agents \ {a}
    /\ UNCHANGED <<saved, process, knowledge, outside, runFaults>>

Killed ==
    /\ runner # "off" /\ RunFault /\ Off
    /\ UNCHANGED <<saved, agents, knowledge, outside>>

Invocation == FirstStart \/ Resume \/ ReturnsReport \/ StartSidecar \/ PrepareFails

Pool ==
    \/ Claim \/ Submit \/ Wait \/ Recorded \/ PoolRaises \/ Cancel \/ JoinWorkers
    \/ Collect \/ CollectRaises
    \/ \E c \in Cases : TaskBegins(c) \/ TaskEnds(c) \/ Record(c) \/ RecordRaises(c)

Ending ==
    Flush \/ FlushInterrupted \/ Settle \/ Unwind \/ UnwindInterrupted \/ StopSidecar \/ WriteReport

Others == Save \/ ServerDies \/ Killed \/ \E a \in agents : Teach(a) \/ AgentEnds(a)

RunNext == Invocation \/ Pool \/ Ending \/ Others

RunSpec == RunInit /\ [][RunNext]_runVars

-----------------------------------------------------------------------------
(* Properties.                                                              *)

\* No task teaches the knowledge base twice, although a run can be resumed and its
\* agents and sidecar outlive a killed process.
TaughtOnce == \A a, b \in disk \cup memory : a[1] = b[1] => a = b

\* A report has one row for a task.
ReportedOnce == \A c \in Cases : saved.rows[c] <= 1

\* What a report calls completed, or a resumption returns as finished, is saved to
\* the last observation.  (Unless an invocation began with the flag of an earlier
\* barrier: that flag stays while the tasks run, and a process that is then killed
\* or interrupted in its own barrier leaves it behind.)
FinishedIsSaved ==
    ~stale => /\ saved.status = "completed" => taught \subseteq disk
              /\ accepted => taught \subseteq disk

RunLearnsOnce == TaughtOnce /\ ReportedOnce /\ FinishedIsSaved
=============================================================================
