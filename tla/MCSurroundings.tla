---------------------------- MODULE MCSurroundings ----------------------------
(***************************************************************************)
(* The programs around the sidecar in one run.  The plugin: its traces, and   *)
(* the sidecar that its registrations share.  The benchmark: a batch of three  *)
(* tasks, one at a time or two (an earlier batch ran the third); an online run  *)
(* of two tasks and its resumption; a task on the host whose agent has two       *)
(* descendants, forked by whoever runs; the audit of a task of two or three      *)
(* calls; a task of two bridged calls, each sent twice.  They only see how another   *)
(* one ends, so that one part moves in any behaviour.                            *)
(***************************************************************************)
EXTENDS BatchRunner, BenchmarkRun, TLC

CONSTANTS Pids, Agent
CONSTANTS Calls, Runs, RunOf, Writers, WriterOf, Procs, Regs, In
CONSTANTS MaxCalls, MaxStrictCalls, MaxLosses, Paths, Box, NoPath
CONSTANTS Requests, Nobody, MaxSends, MaxBridgeFaults

SerialAndPool == {1, 2}
Third == {3}
TwoAndOne == "a" :> "n1" @@ "b" :> "n1" @@ "c" :> "n2"
OneRun == [call \in Calls |-> "run"]
Variants == "c1" :> "w1" @@ "c2" :> "w1" @@ "c3" :> "w2"

VARIABLES kind, step, exit, error, stopped, cancelled, raising, records, patch,
          sandbox, swept, abort, run, parent, sup, term, pending, owned, code,
          late, hostFaults
VARIABLES hook, active, linked, creating, handles, broken, starts, ends, fin, todo, down
VARIABLES launch, refs, child, stray, reg, shell, pluginFaults
VARIABLES strict, frozen, calls, open, produced, spans, artifacts, verdict, losses
VARIABLES form, owner, agent, failing, leaving, tooLate, closing, handler, sends, lock,
          answered, gate, payload, ran, lost, container, toolWorker, kids, admitted,
          unheard, told, released, bridgeFaults
VARIABLE part

Host == INSTANCE HostTask WITH pc <- step, faults <- hostFaults
Plugin == INSTANCE PluginTrace
Started == INSTANCE SharedSidecar WITH phase <- launch, faults <- pluginFaults
Audit == INSTANCE TaskVerdict WITH MaxFaults <- MaxLosses, Shared <- Box, faults <- losses
Bridge == INSTANCE BridgedTask
            WITH raising <- leaving, late <- tooLate, failed <- failing, results <- answered,
                 worker <- toolWorker

ASSUME
    /\ Host!TaskAssumption /\ Plugin!TraceAssumption /\ Started!SidecarAssumption
    /\ Bridge!BridgeAssumption

hostVars == <<kind, step, exit, error, stopped, cancelled, raising, records, patch,
              sandbox, swept, abort, run, parent, sup, term, pending, owned, code,
              late, hostFaults>>
traceVars == <<hook, active, linked, creating, handles, broken, starts, ends, fin, todo, down>>
startedVars == <<launch, refs, child, stray, reg, shell, pluginFaults>>
auditVars == <<strict, frozen, calls, open, produced, spans, artifacts, verdict, losses>>
bridgeVars == <<form, owner, agent, failing, leaving, tooLate, closing, handler, sends, lock,
                answered, gate, payload, ran, lost, container, toolWorker, kids, admitted,
                unheard, told, released, bridgeFaults>>

AllInit ==
    /\ Init /\ RunInit /\ Host!Init /\ Plugin!Init /\ Started!Init /\ Audit!Init
    /\ Bridge!Init
    /\ part \in {"batch", "run", "task", "trace", "sidecar", "audit", "tools"}
    /\ part # "task" => kind = "task"
    /\ part # "batch" => mode = "host" /\ workers = 1
    /\ part # "sidecar" => \A n \in Procs : ~shell[n]
    /\ part # "audit" => ~strict /\ ~frozen
    /\ part # "tools" => form = "terminal"

AllNext ==
    /\ \/ part = "batch" /\ Next
             /\ UNCHANGED <<runVars, hostVars, traceVars, startedVars, auditVars, bridgeVars>>
       \/ part = "run" /\ RunNext
             /\ UNCHANGED <<vars, hostVars, traceVars, startedVars, auditVars, bridgeVars>>
       \/ part = "task" /\ Host!Next
             /\ UNCHANGED <<vars, runVars, traceVars, startedVars, auditVars, bridgeVars>>
       \/ part = "trace" /\ Plugin!Next
             /\ UNCHANGED <<vars, runVars, hostVars, startedVars, auditVars, bridgeVars>>
       \/ part = "sidecar" /\ Started!Next
             /\ UNCHANGED <<vars, runVars, hostVars, traceVars, auditVars, bridgeVars>>
       \/ part = "audit" /\ Audit!Next
             /\ UNCHANGED <<vars, runVars, hostVars, traceVars, startedVars, bridgeVars>>
       \/ part = "tools" /\ Bridge!Next
             /\ UNCHANGED <<vars, runVars, hostVars, traceVars, startedVars, auditVars>>
    /\ UNCHANGED part

\* FairSpec of each part.
Batch(A) == part = "batch" /\ A
Task(A) == part = "task" /\ A
Sidecar(A) == part = "sidecar" /\ A
Tools(A) == part = "tools" /\ A
AllFair ==
    /\ WF_vars(Batch(Closing))
    /\ \A t \in Tasks : WF_vars(Batch(TaskStep(t))) /\ WF_vars(Batch(Handle(t)))
    /\ WF_hostVars(Task(Host!Unfailing(Host!Worker)))
    /\ WF_hostVars(Task(Host!Unfailing(Host!Supervise)))
    /\ WF_hostVars(Task(Host!Late))
    /\ \A p \in Pids : WF_hostVars(Task(Host!Stop(p))) /\ WF_hostVars(Task(Host!Dying(p)))
    /\ \A r \in Regs : /\ WF_startedVars(Sidecar(Started!Register(r) /\ reg[r] = "off"))
                       /\ WF_startedVars(Sidecar(Started!Shutdown(r)))
    /\ \A n \in Procs :
         /\ WF_startedVars(Sidecar(Started!Bind(n))) /\ WF_startedVars(Sidecar(Started!Healthy(n)))
         /\ WF_startedVars(Sidecar(Started!Dies(n)))
         /\ WF_startedVars(Sidecar((Started!TimesOut(n) \/ Started!Stopped(n))
                                   /\ pluginFaults' = pluginFaults))
    /\ WF_bridgeVars(Tools(Bridge!Owner))
    /\ \A c \in Requests :
         WF_bridgeVars(Tools(Bridge!Handler(c))) /\ WF_bridgeVars(Tools(Bridge!CommandEnds(c)))

AllSpec ==
    /\ AllInit
    /\ [][AllNext]_<<vars, runVars, hostVars, traceVars, startedVars, auditVars, bridgeVars, part>>
    /\ AllFair

\* Who is told that an agent or its task is over, worker, sidecar or batch, finds
\* it quiet.
QuietWhenTold == Host!QuietWhenTold
\* Spans end once and with their run, and a closed run leaves no handle open.
RunsEndClean == Plugin!RunsEndClean
\* A plugin ends its sidecar for the last registration that counts on it, and
\* leaves none behind but one that its signal did not reach.
StopsForTheLastOnly == Started!StopsForTheLastOnly
\* A task whose telemetry passes the audit was measured call by call.
PassedIsMeasured == part = "audit" => Audit!PassedIsMeasured
\* Commands run once, and have ended with their worker when the sidecar is told so.
ToolsAreOwned == Bridge!ToolsAreOwned
\* A batch writes its report, a task ends, with bridged tools or without, and every
\* registration closes, whatever fails or hangs.
EveryoneEnds ==
    <>(CASE part = "batch" -> Done
         [] part = "task" -> Host!Over
         [] part = "sidecar" -> \A r \in Regs : reg[r] = "closed"
         [] part = "tools" -> owner = "over"
         [] OTHER -> TRUE)
=============================================================================
