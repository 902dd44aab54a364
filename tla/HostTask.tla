------------------------------- MODULE HostTask -------------------------------
(***************************************************************************)
(* One benchmark task on the host (swe_rebench/host_openclaw.py): the worker  *)
(* thread sets up, runs the agent under a supervisor (process_supervisor.py), *)
(* and whatever happened cleans up and settles the runtime with the sidecar.  *)
(* A replayed trace runs the same way with a handler less.                    *)
(*                                                                           *)
(* The agent is a tree of processes.  Orphans go to the supervisor, a         *)
(* subreaper; signals take effect later than they are sent.                   *)
(***************************************************************************)
EXTENDS Naturals, FiniteSets

CONSTANTS Pids, Agent,   \* processes of the tree, and its root
          MaxFaults      \* bound: steps that raise or run out of time

VARIABLES
    kind,      \* "task" or "replay"
    pc,        \* of the worker thread
    exit,      \* exit_code, -1 as Unset
    error,     \* error is set
    stopped,   \* agent_stopped
    cancelled, \* agent_cancelled
    raising,   \* the exception that leaves the function
    records,   \* timeout records written
    patch,     \* the patch was collected
    sandbox,   \* the agent's containers are up
    swept,     \* sandbox_stopped
    abort,     \* runtimes the sidecar was told are finished
    run,       \* process -> "free", "running", "stopping", "stopped", "dying", "zombie", "gone"
    parent,    \* process -> its parent, Supervisor for the root and orphans
    sup,       \* the supervisor: "off", "watch", "scan", "reap", "exited"
    term,      \* SIGTERM has reached it
    pending, owned, code,
    late,      \* the task's deadline has passed
    faults

thread == <<kind, pc, exit, error, stopped, cancelled, raising, records, patch, swept, abort>>
tree == <<run, parent>>
super == <<sup, pending, owned, code>>
vars == <<thread, sandbox, tree, super, term, late, faults>>

Supervisor == "supervisor"

TaskAssumption == Agent \in Pids /\ Supervisor \notin Pids /\ MaxFaults \in Nat

Unset == 255
Timeout == 124
Unclean == 125

Init ==
    /\ kind \in {"task", "replay"} /\ pc = "setup" /\ exit = Unset /\ error = FALSE
    /\ stopped = FALSE /\ cancelled = FALSE /\ raising = "none" /\ records = 0
    /\ patch = FALSE /\ sandbox = FALSE /\ swept = FALSE /\ abort = FALSE
    /\ run = [p \in Pids |-> "free"] /\ parent = [p \in Pids |-> Supervisor]
    /\ sup = "off" /\ term = FALSE /\ pending = {} /\ owned = {} /\ code = Unset
    /\ late = FALSE /\ faults = 0

Fault == faults < MaxFaults /\ faults' = faults + 1

TypeOK ==
    /\ exit \in 0..255 /\ records \in Nat
    /\ raising \in {"none", "cleanup"}
    /\ run \in [Pids -> {"free", "running", "stopping", "stopped", "dying", "zombie", "gone"}]
    /\ parent \in [Pids -> Pids \cup {Supervisor}]
    /\ pending \subseteq Pids /\ owned \subseteq Pids /\ code \in 0..255

Alive == {p \in Pids : run[p] \in {"running", "stopping", "stopped", "dying"}}
Children(p) == {q \in Pids : parent[q] = p /\ run[q] \notin {"free", "gone"}}

-----------------------------------------------------------------------------
(* The agent and its descendants.                                           *)

\* A process that was sent SIGSTOP may still finish the fork it is in.
Fork(p, q) ==
    /\ run[p] \in {"running", "stopping"} /\ run[q] = "free" /\ q # Agent
    /\ run' = [run EXCEPT ![q] = "running"]
    /\ parent' = [parent EXCEPT ![q] = p]
    /\ UNCHANGED <<thread, sandbox, super, term, late, faults>>

Stop(p) ==
    /\ run[p] = "stopping" /\ run' = [run EXCEPT ![p] = "stopped"]
    /\ UNCHANGED <<thread, sandbox, parent, super, term, late, faults>>

\* By itself or killed; its children get a new parent, a running parent reaps it
\* and one that was sent SIGSTOP may.
MayReap(p) == parent[p] # Supervisor /\ run[parent[p]] \in {"running", "stopping"}
MustReap(p) == MayReap(p) /\ run[parent[p]] = "running"

Exit(p) ==
    /\ run[p] \in {"running", "dying"}
    /\ \/ MayReap(p) /\ run' = [run EXCEPT ![p] = "gone"]
       \/ ~MustReap(p) /\ run' = [run EXCEPT ![p] = "zombie"]
    /\ parent' = [q \in Pids |-> IF parent[q] = p THEN Supervisor ELSE parent[q]]
    /\ UNCHANGED <<thread, sandbox, super, term, late, faults>>

\* OpenClaw starts a sandbox container.
Sandbox(p) ==
    /\ run[p] = "running" /\ ~sandbox /\ sandbox' = TRUE
    /\ UNCHANGED <<thread, tree, super, term, late, faults>>

-----------------------------------------------------------------------------
(* process_supervisor.py.                                                   *)

\* main: the agent has ended or a signal came.
Watch ==
    /\ sup = "watch" /\ (term \/ run[Agent] = "zombie")
    /\ IF run[Agent] = "zombie"
       THEN run' = [run EXCEPT ![Agent] = "gone"] /\ code' \in {0, 1, Timeout}
       ELSE code' = 143 /\ UNCHANGED run
    /\ sup' = "scan"
    /\ pending' = {p \in Children(Supervisor) : run'[p] # "gone"} /\ owned' = {}
    /\ UNCHANGED <<thread, sandbox, parent, term, late, faults>>

\* cleanup: each owned parent is stopped before its children are listed ...
Scan(p) ==
    /\ sup = "scan" /\ p \in pending
    /\ IF run[p] = "gone"
       THEN pending' = pending \ {p} /\ UNCHANGED <<run, owned>>
       ELSE /\ owned' = owned \cup {p}
            /\ run' = [run EXCEPT ![p] = IF @ = "running" THEN "stopping" ELSE @]
            /\ pending' = (pending \cup Children(p)) \ (owned \cup {p})
    /\ UNCHANGED <<thread, sandbox, parent, sup, term, code, late, faults>>

\* ... then all are killed ...
Kill ==
    /\ sup = "scan" /\ pending = {}
    /\ run' = [p \in Pids |-> IF p \in owned \cap Alive THEN "dying" ELSE run[p]]
    /\ sup' = "reap"
    /\ UNCHANGED <<thread, sandbox, parent, pending, owned, term, code, late, faults>>

Clean(reaped) == Children(Supervisor) \ reaped = {}

\* ... and the dead are reaped, until no child is left or time is up.
Reap ==
    /\ sup = "reap"
    /\ LET reaped == {p \in Children(Supervisor) : run[p] = "zombie"} IN
       /\ run' = [p \in Pids |-> IF p \in reaped THEN "gone" ELSE run[p]]
       /\ \/ Clean(reaped) /\ sup' = "exited" /\ UNCHANGED <<pending, owned, code, faults>>
          \/ /\ ~Clean(reaped) /\ sup' = "scan"
             /\ pending' = Children(Supervisor) \ reaped /\ owned' = {}
             /\ UNCHANGED <<code, faults>>
          \/ /\ ~Clean(reaped) /\ Fault /\ sup' = "exited" /\ code' = Unclean
             /\ UNCHANGED <<pending, owned>>
    /\ UNCHANGED <<thread, sandbox, parent, term, late>>

-----------------------------------------------------------------------------
(* run_host_openclaw_task and run_host_openclaw_replay_task.                 *)

Late == ~late /\ late' = TRUE
        /\ UNCHANGED <<thread, sandbox, tree, super, term, faults>>

\* What a handler of the function makes of an exception.
Handles(what) ==
    /\ LET outOfTime == what = "deadline" \/ (what = "setup_timeout" /\ kind = "task") IN
       /\ exit' = IF outOfTime THEN Timeout ELSE exit
       /\ records' = IF outOfTime THEN records + 1 ELSE records
    /\ cancelled' = (what = "cancel")
    /\ error' = (what # "cleanup" \/ kind = "replay")
    /\ raising' = IF what = "cleanup" /\ kind = "task" THEN "cleanup" ELSE raising
    /\ pc' = "sweep"

\* Preflight, workspace, image, sidecar: each may raise or find the deadline
\* passed, before the agent is launched.
SetUp ==
    /\ pc = "setup"
    /\ \/ /\ ~late /\ pc' = "wait"
          /\ run' = [run EXCEPT ![Agent] = "running"] /\ sup' = "watch"
          /\ UNCHANGED <<exit, records, cancelled, error, raising, faults>>
       \/ /\ late /\ Handles("deadline") /\ UNCHANGED <<run, sup, faults>>
       \/ /\ \E what \in {"setup_timeout", "cancel", "cleanup", "other"} : Handles(what)
          /\ Fault /\ UNCHANGED <<run, sup>>
    /\ UNCHANGED <<kind, stopped, patch, swept, abort, sandbox, parent, pending, owned, code, term, late>>

\* wait_process returned the supervisor's exit code.
AgentEnds ==
    /\ pc = "wait" /\ sup = "exited"
    /\ IF code = Unclean
       THEN Handles("cleanup") /\ UNCHANGED stopped
       ELSE /\ pc' = "collect" /\ exit' = code /\ stopped' = TRUE
            /\ UNCHANGED <<records, cancelled, error, raising>>
    /\ UNCHANGED <<kind, patch, swept, abort, sandbox, tree, super, term, late, faults>>

TimeIsUp == late

\* The deadline or a cancellation: _kill_agent_process_and_confirm.
Interrupt ==
    /\ pc = "wait" /\ ~term
    /\ \/ TimeIsUp /\ pc' = "kill" /\ UNCHANGED <<cancelled, faults>>
       \/ Fault /\ pc' = "kill" /\ cancelled' = TRUE
    /\ term' = TRUE
    /\ UNCHANGED <<kind, exit, error, stopped, raising, records, patch, swept, abort, sandbox, tree, super, late>>

\* Mutant: the kill is taken for the confirmation.
ConfirmedBySignal == TRUE
Confirmed == sup = "exited" /\ code # Unclean

Killed ==
    /\ pc = "kill"
    /\ \/ /\ Confirmed /\ stopped' = TRUE
          /\ IF cancelled THEN Handles("cancel")
             ELSE /\ exit' = Timeout /\ records' = records + 1 /\ pc' = "collect"
                  /\ UNCHANGED <<cancelled, error, raising>>
          /\ UNCHANGED faults
       \/ /\ \/ sup = "exited" /\ code = Unclean /\ UNCHANGED faults
             \/ Fault
          /\ Handles("cleanup") /\ UNCHANGED stopped
    /\ UNCHANGED <<kind, patch, swept, abort, sandbox, tree, super, term, late>>

\* "Every remaining step would raise immediately (and overwrite its message)"
SkipsCollection == kind = "task" /\ exit = Timeout

Collect ==
    /\ pc = "collect"
    /\ \/ /\ SkipsCollection /\ pc' = "sweep" /\ error' = (records > 0)
          /\ UNCHANGED <<exit, records, cancelled, raising, patch, faults>>
       \/ /\ ~SkipsCollection /\ ~late /\ pc' = "sweep" /\ patch' = TRUE
          /\ UNCHANGED <<exit, records, cancelled, error, raising, faults>>
       \/ ~SkipsCollection /\ late /\ Handles("deadline") /\ UNCHANGED <<patch, faults>>
       \/ /\ ~SkipsCollection /\ Fault /\ UNCHANGED patch
          /\ Handles("other")
    /\ UNCHANGED <<kind, stopped, swept, abort, sandbox, tree, super, term, late>>

\* The finally clause: docker rm of the sandbox ...
Sweep ==
    /\ pc = "sweep" /\ pc' = "settle"
    /\ \/ sandbox' = FALSE /\ swept' = TRUE /\ UNCHANGED <<error, raising, faults>>
       \/ /\ Fault /\ UNCHANGED <<sandbox, swept>>
          /\ IF kind = "task" THEN raising' = "cleanup" /\ UNCHANGED error
                              ELSE error' = TRUE /\ UNCHANGED raising
    /\ UNCHANGED <<kind, exit, stopped, cancelled, records, patch, abort, tree, super, term, late>>

MayAbort == swept /\ stopped /\ (exit = Timeout \/ cancelled)

\* ... _abort_runtime, drain and scope removal (their failures are recorded) ...
Settle ==
    /\ pc = "settle" /\ pc' = "finish"
    /\ abort' = MayAbort
    /\ UNCHANGED <<kind, exit, error, stopped, cancelled, raising, records, patch, swept, sandbox, tree, super, term, late, faults>>

\* ... a second sweep of the sandbox, and the sidecar is stopped.
Finish ==
    /\ pc = "finish"
    /\ sandbox' = (IF kind = "task" THEN FALSE ELSE sandbox)
    /\ \/ raising' = raising /\ UNCHANGED faults
       \/ Fault /\ raising' = "cleanup"
    /\ pc' = IF raising' = "none" THEN "returned" ELSE "raised"
    /\ UNCHANGED <<kind, exit, error, stopped, cancelled, records, patch, swept, abort, tree, super, term, late>>

Worker == SetUp \/ AgentEnds \/ Interrupt \/ Killed \/ Collect \/ Sweep \/ Settle \/ Finish
Supervise == Watch \/ Kill \/ Reap \/ \E p \in Pids : Scan(p)

Next == \/ Worker \/ Supervise \/ Late
        \/ \E p \in Pids : Stop(p) \/ Exit(p) \/ Sandbox(p) \/ \E q \in Pids : Fork(p, q)

Spec == Init /\ [][Next]_vars

\* The clock passes the deadline (there is one); signals take effect; the supervisor and the
\* worker run.  The agent need not end by itself.
Unfailing(step) == step /\ faults' = faults
Dying(p) == run[p] = "dying" /\ Exit(p)
FairSpec ==
    /\ Spec /\ WF_vars(Unfailing(Worker)) /\ WF_vars(Unfailing(Supervise)) /\ WF_vars(Late)
    /\ \A p \in Pids : WF_vars(Stop(p)) /\ WF_vars(Dying(p))

-----------------------------------------------------------------------------
(* Properties.                                                              *)

\* "retain ownership of detached/orphaned descendants": a supervisor that reports
\* success leaves no process of the tree, forked or orphaned at any moment.
\* _abort_runtime: "Called only after the owner confirms agent exit and sandbox
\* cleanup".  And a task that returns a result (which the batch publishes) is
\* quiet: one that could not confirm it raises.
QuietWhenTold ==
    /\ sup = "exited" /\ code # Unclean => Alive = {}
    /\ abort => Alive = {} /\ ~sandbox
    /\ kind = "task" /\ pc = "returned" => Alive = {} /\ ~sandbox

\* Every task ends, also when the agent never would.
Over == pc \in {"returned", "raised"}
=============================================================================
