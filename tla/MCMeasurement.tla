----------------------------- MODULE MCMeasurement -----------------------------
(***************************************************************************)
(* The parts that measure a command, one at a time in a behaviour: the       *)
(* launcher in all its modes, the shared BPF source under two commands, and    *)
(* the monitors of the sidecar. They meet in the answers that each of their      *)
(* modules leaves open.                                                       *)
(***************************************************************************)
EXTENDS Launcher, SharedTelemetry, TLC

VARIABLE part

(* Two commands in one container: r1 begins in g1 and g2, and r2 in g1, from      *)
(* where it finds the two others later.                                         *)
ScopeOfEach == "r1" :> {"g1", "g2"} @@ "r2" :> {"g1"}
FoundBySecond == "r1" :> {} @@ "r2" :> {"g2", "g3"}

(* Two calls of one task.                                                    *)
BoxPath == <<"box">>
BoxOfEach == "c1" :> BoxPath @@ "c2" :> BoxPath
ClawtunePath == <<"clawtune">>
CONSTANTS Calls, CallHome, ExecParent, SampleGap, RecentCap, MaxTime, MaxMemoryFaults
VARIABLES now, row, unavailable, recent, windows, ranAt, peak, attended, memoryFaults
memoryVars == <<now, row, unavailable, recent, windows, ranAt, peak, attended, memoryFaults>>
Memory == INSTANCE EnvironmentMemory WITH
    ran <- ranAt, label <- peak, faults <- memoryFaults,
    Home <- CallHome, Parent <- ExecParent, Gap <- SampleGap, MaxFaults <- MaxMemoryFaults

(* Two executions for one place.                                             *)
CONSTANTS Execs
VARIABLES root, begun, groups, completed, fds, told, closed, pmuFaults
pmuVars == <<root, begun, groups, completed, fds, told, closed, pmuFaults>>
Pmu == INSTANCE PmuCollector WITH
    armed <- begun, active <- groups, faults <- pmuFaults,
    Events <- {"cycles", "misses"}, Leader <- "cycles",
    MaxActive <- 1, MaxFds <- 2, Kept <- 1, MaxFaults <- 1

(* A tool that forks once, beside another process of its container.            *)
VARIABLES log, parent, alive, window, phase, hook, ended, verdict, windowFaults
windowVars == <<log, parent, alive, window, phase, hook, ended, verdict, windowFaults>>
Window == INSTANCE ToolWindow WITH
    stage <- phase, faults <- windowFaults,
    Tool <- "tool", Other <- "other", Kids <- {"kid"},
    Gap <- 2, MaxLog <- 4, MaxFaults <- 1

(* Two calls and two execs of one container, one record.                       *)
CONSTANTS DockerExecs, BoxOf, ToolOf, MaxRecords
OneBox == [party \in Calls \cup DockerExecs |-> "box"]
OneTool == [c \in Calls |-> "read"]
VARIABLES began, watched, matched, records, consumed, watching, telling, bound, inferred, seen, strayed
observerVars == <<began, watched, matched, records, consumed, watching, telling, bound, inferred, seen,
                  strayed>>
Observer == INSTANCE ExecObserver WITH
    active <- watched, Execs <- DockerExecs, Box <- BoxOf, Tool <- ToolOf

VARIABLES place, required, cgroups, stage, request, sandbox, scope, monitor, collector, task, label
scopeVars == <<place, required, cgroups, stage, request, sandbox, scope, monitor, collector, task, label>>
Scoping == INSTANCE ExecutionScope WITH cgroup <- cgroups

(* A tool, a script of the workspace and one of a container; one execution.     *)
CONSTANTS Tools, Local, Contained, MeasuredExecs, QueueSize, Budget, MaxEdits, MaxCools
VARIABLES content, found, states, queue, counts, worker, lock, exec, probe, stop, closer,
          asks, asked, cools
ruleVars == <<content, found, states, queue, counts, worker, lock, exec, probe, stop, closer,
              asks, asked, cools>>
Rules == INSTANCE RuleGenerator WITH Execs <- MeasuredExecs

ASSUME
    /\ Memory!PathAssumption /\ Memory!BoundAssumption
    /\ Window!GapAssumption /\ Observer!ObserverAssumption
    /\ Pmu!LeaderAssumption /\ Pmu!BudgetAssumption /\ Rules!RuleAssumption

Parts == {"launcher", "source", "memory", "pmu", "window", "observer", "scope", "rules"}

AllModes == {"subprocess", "forkexec", "degraded"}

PartInit ==
    /\ part \in Parts
    /\ Init /\ SourceInit /\ Memory!Init /\ Pmu!Init /\ Window!Init /\ Observer!Init
    /\ Scoping!Init /\ Rules!Init
    /\ part # "launcher" => mode = "degraded" /\ env = {}
    /\ part # "scope" => place = "host" /\ ~required

PartNext ==
    /\ \/ /\ part = "launcher" /\ Next
          /\ UNCHANGED <<sourceVars, memoryVars, pmuVars, windowVars, observerVars, scopeVars, ruleVars>>
       \/ /\ part = "source" /\ SourceNext
          /\ UNCHANGED <<vars, memoryVars, pmuVars, windowVars, observerVars, scopeVars, ruleVars>>
       \/ /\ part = "memory" /\ Memory!Next
          /\ UNCHANGED <<vars, sourceVars, pmuVars, windowVars, observerVars, scopeVars, ruleVars>>
       \/ /\ part = "pmu" /\ Pmu!Next
          /\ UNCHANGED <<vars, sourceVars, memoryVars, windowVars, observerVars, scopeVars, ruleVars>>
       \/ /\ part = "window" /\ Window!Next
          /\ UNCHANGED <<vars, sourceVars, memoryVars, pmuVars, observerVars, scopeVars, ruleVars>>
       \/ /\ part = "observer" /\ Observer!Next
          /\ UNCHANGED <<vars, sourceVars, memoryVars, pmuVars, windowVars, scopeVars, ruleVars>>
       \/ /\ part = "scope" /\ Scoping!Next
          /\ UNCHANGED <<vars, sourceVars, memoryVars, pmuVars, windowVars, observerVars, ruleVars>>
       \/ /\ part = "rules" /\ Rules!Next
          /\ UNCHANGED <<vars, sourceVars, memoryVars, pmuVars, windowVars, observerVars, scopeVars>>
    /\ UNCHANGED part

(* The fairness of the launcher and of the BPF source.                          *)
PartFair ==
    /\ WF_vars(part = "launcher" /\ Step /\ faults' = faults)
    /\ \A c \in Children :
          /\ WF_vars(part = "launcher" /\ Exec(c))
          /\ WF_vars(part = "launcher" /\ Leave(c) /\ faults' = faults)
          /\ WF_vars(part = "launcher" /\ End(c))
    /\ WF_sourceVars(part = "source" /\ Poll)
    /\ \A r \in Runs :
          /\ WF_sourceVars(part = "source" /\ Deliver(r))
          /\ WF_sourceVars(part = "source" /\ Finishing(r))

PartSpec ==
    /\ PartInit
    /\ [][PartNext]_<<vars, sourceVars, memoryVars, pmuVars, windowVars, observerVars, scopeVars, ruleVars,
              part>>
    /\ PartFair

\* What is learned of a call is the call's: an eligible memory peak belongs to it
\* alone, reliable counters are those of a whole execution and no descriptor
\* leaks, and the CPU time of its window is its own.
LearnedIsTheCalls == Memory!EligibleIsAlone /\ Pmu!CountersAreWhole /\ Window!CpuIsTheCalls
\* One docker exec is measured for one call.
ExecIsOneCalls == Observer!ExecIsOneCalls
\* What is measured as an execution's is the execution's.
ScopeIsItsOwn == Scoping!ScopeIsItsOwn
\* Grammars are learned beside measured executions, within bounds, until close().
GeneratorKeepsOff == part = "rules" => Rules!GeneratorKeepsOff
\* A launcher ends, and so does an observed command.
MeasurementEnds ==
    /\ part = "launcher" => LauncherEnds
    /\ part = "source" => CommandsEnd
=============================================================================
