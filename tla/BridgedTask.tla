----------------------------- MODULE BridgedTask -----------------------------
(***************************************************************************)
(* A benchmark task whose tools run outside the agent (benchmarks/runtime.py,  *)
(* _execute_bridged): the agent calls the tool bridge over HTTP, and one call at *)
(* a time gets the backend.  A terminal backend runs commands in a Compose         *)
(* container, behind a gate while the sidecar is told of them; a functions backend *)
(* keeps its state in one worker process, in a cgroup of its own.  When the agent    *)
(* is over, the task stops its tools before it tells the sidecar so.                  *)
(*                                                                         *)
(* External: the agent, what a command does, Docker.  Whether the reports of a      *)
(* gated command arrive changes nothing here: the gated child is kept.                *)
(***************************************************************************)
EXTENDS Naturals

CONSTANTS Requests,        \* tool calls, by call_id
          Nobody,
          MaxSends,        \* bound: times the agent sends one of them
          MaxBridgeFaults

BridgeAssumption == Nobody \notin Requests

VARIABLES
    form,        \* task.kind: "terminal" or "functions"
    owner,       \* where _execute_bridged is
    agent,       \* the agent process: "off", "runs", "left" behind, "gone"
    failed,      \* its exit code is not 0
    raising,     \* an exception leaves _execute_bridged
    late,        \* the deadline has passed
    closing,     \* ToolBridge.closing, and the backend is cancelled
    handler,     \* request -> its HTTP handler
    sends,       \* request -> times it was sent
    lock,        \* the request that has the backend
    results,     \* requests that are answered from ToolBridge.results
    gate,        \* gate_available
    payload,     \* request -> its command: "none", "gated", "alive"
    ran,         \* request -> times its command was started
    lost,        \* requests that ran and have no result although the task goes on
    container,   \* "none", "up", "stopped", "down"
    worker,      \* "none", "blocked", "loading", "ready", "dead"; "dirty" if it exited 125
    kids,        \* descendants of it
    admitted,    \* the sidecar has moved it into its native scope
    unheard,     \* it ended without its descendants, and its exit code does not say so
    told,        \* the sidecar has drained or aborted the runtime
    released,    \* and has deleted the native scope
    bridgeFaults

ownerVars == <<owner, agent, failed, raising, closing>>
bridgeVars == <<handler, sends, lock, results>>
dockerVars == <<gate, payload, ran, lost, container>>
workerVars == <<worker, kids, admitted, unheard>>
sidecarVars == <<told, released>>
fixed == <<form, late>>
taskVars == <<fixed, ownerVars, bridgeVars, dockerVars, workerVars, sidecarVars, bridgeFaults>>

Init ==
    /\ form \in {"terminal", "functions"} /\ owner = "setup"
    /\ agent = "off" /\ failed = FALSE /\ raising = FALSE /\ late = FALSE /\ closing = FALSE
    /\ handler = [c \in Requests |-> "none"] /\ sends = [c \in Requests |-> 0]
    /\ lock = Nobody /\ results = {}
    /\ gate = FALSE /\ payload = [c \in Requests |-> "none"] /\ ran = [c \in Requests |-> 0]
    /\ lost = {} /\ container = "none"
    /\ worker = "none" /\ kids = FALSE /\ admitted = FALSE /\ unheard = FALSE
    /\ told = FALSE /\ released = FALSE /\ bridgeFaults = 0

Fault == bridgeFaults < MaxBridgeFaults /\ bridgeFaults' = bridgeFaults + 1
Works(ok) == IF ok THEN UNCHANGED bridgeFaults ELSE Fault

-----------------------------------------------------------------------------
(* What the backends are made of.                                            *)

\* Docker ends what runs in a container with it.
ContainerStops(how) == container' = how /\ payload' = [c \in Requests |-> "none"]
SameContainer == UNCHANGED <<container, payload>>

\* _stop: the worker ends with its descendants, or exits 125 because they did not
\* end, or has to be killed.  The last two raise.
StopWorker(how) ==
    /\ worker' = IF how = "exits 125" THEN "dirty" ELSE "dead"
    /\ kids' = (kids /\ how # "clean")
    /\ Works(how = "clean")
    /\ UNCHANGED admitted
Ways == {"clean", "exits 125", "killed"}
Running == worker \in {"blocked", "loading", "ready"}

\* Mutant: the scope of a worker is deleted whatever lives in it.
DeletesAny == TRUE
\* The sidecar deletes an empty native scope only.
DeletesScope == ~Running /\ ~kids

-----------------------------------------------------------------------------
(* The constructors.  One that fails cleans up, or says that it could not.     *)

\* A gate that cannot be copied or does not answer is not used; the task goes on.
InstallGate == gate' \in BOOLEAN

SetUp ==
    /\ owner = "setup"
    /\ IF form = "functions"
       THEN worker' = "blocked" /\ owner' = "admit"
            /\ UNCHANGED <<agent, gate, container, bridgeFaults>>
       ELSE /\ InstallGate /\ UNCHANGED worker
            /\ \/ container' = "up" /\ owner' = "agent" /\ agent' = "runs" /\ Works(TRUE)
               \/ container' \in {"none", "up"} /\ owner' = "unmade" /\ UNCHANGED agent /\ Works(late)
    /\ UNCHANGED <<fixed, failed, raising, closing, bridgeVars, payload, ran, lost, kids, admitted,
                   unheard, sidecarVars>>

\* Mutant: the worker goes on whatever the sidecar answers.
GoesAnyway(ok) == ~late
\* provision_native_scope comes before the worker imports anything.
Goes(ok) == ok /\ ~late

Admit ==
    /\ owner = "admit"
    /\ \E ok \in BOOLEAN :
          /\ admitted' \in (IF ok THEN {TRUE} ELSE BOOLEAN) /\ Works(ok)
          /\ owner' = IF Goes(ok) THEN "load" ELSE "unmade"
          /\ worker' = IF Goes(ok) THEN "loading" ELSE worker
    /\ UNCHANGED <<fixed, agent, failed, raising, closing, bridgeVars, dockerVars, kids, unheard,
                   sidecarVars>>

Load ==
    /\ owner = "load" /\ worker \in {"loading", "dead"}
    /\ \/ worker = "loading" /\ worker' = "ready" /\ kids' \in BOOLEAN
          /\ owner' = "agent" /\ agent' = "runs" /\ Works(TRUE)
       \/ owner' = "unmade" /\ Works(late \/ worker = "dead") /\ UNCHANGED <<agent, worker, kids>>
    /\ UNCHANGED <<fixed, failed, raising, closing, bridgeVars, dockerVars, admitted, unheard,
                   sidecarVars>>

Unmake ==
    /\ owner = "unmade" /\ owner' = "over"
    /\ IF form = "terminal"
       THEN /\ \/ ContainerStops("down") /\ raising' \in BOOLEAN /\ Works(TRUE)
               \/ SameContainer /\ raising' = TRUE /\ Fault
            /\ UNCHANGED <<worker, kids, admitted, released>>
       ELSE /\ UNCHANGED <<container, payload>> /\ raising' \in BOOLEAN
            /\ \/ Running /\ \E how \in Ways : StopWorker(how) /\ (how # "clean" => raising')
                  /\ UNCHANGED released
               \/ ~Running /\ UNCHANGED <<worker, kids>> /\ admitted' = (admitted /\ ~DeletesScope)
                  /\ released' = DeletesScope /\ (DeletesScope \/ raising') /\ Works(TRUE)
    /\ UNCHANGED <<fixed, agent, failed, closing, bridgeVars, gate, ran, lost, unheard, told>>

-----------------------------------------------------------------------------
(* ToolBridge: one request at a time has the backend.  A request that is sent   *)
(* again waits for the lock too, so that it may as well arrive after the first.   *)

Arrive(c) ==
    /\ agent \in {"runs", "left"} /\ ~closing
    /\ handler[c] \in {"none", "over"} /\ sends[c] < MaxSends
    /\ handler' = [handler EXCEPT ![c] = "waits"] /\ sends' = [sends EXCEPT ![c] = @ + 1]
    /\ UNCHANGED <<fixed, ownerVars, lock, results, dockerVars, workerVars, sidecarVars, bridgeFaults>>

Goto(c, where) == handler' = [handler EXCEPT ![c] = where]
\* The handler answers, or raises, and releases the lock.
Over(c, kept) ==
    /\ Goto(c, "over") /\ lock' = Nobody
    /\ results' = IF kept THEN results \cup {c} ELSE results
    /\ UNCHANGED sends

\* Mutant: only the lock keeps requests apart.
KnownNever(c) == FALSE
Known(c) == c \in results

Enter(c) ==
    /\ handler[c] = "waits" /\ lock = Nobody
    /\ IF closing \/ Known(c)
       THEN Goto(c, "over") /\ UNCHANGED lock
       ELSE /\ lock' = c
            /\ Goto(c, IF form = "functions" THEN "send" ELSE IF gate THEN "gate" ELSE "plain")
    /\ UNCHANGED <<fixed, ownerVars, sends, results, dockerVars, workerVars, sidecarVars, bridgeFaults>>

Starts(c) == payload' = [payload EXCEPT ![c] = "alive"] /\ ran' = [ran EXCEPT ![c] = @ + 1]
Stopped(c) == payload' = [payload EXCEPT ![c] = "none"]
Interrupted == late \/ closing

\* The gate starts blocked and sends its identity.  Without one it is not used again.
Gate(c) ==
    /\ handler[c] = "gate"
    /\ \/ late /\ Over(c, FALSE) /\ Works(TRUE) /\ UNCHANGED <<payload, gate>>
       \/ /\ ~late /\ container = "up" /\ payload' = [payload EXCEPT ![c] = "gated"]
          /\ Goto(c, "gated") /\ Works(TRUE) /\ UNCHANGED <<sends, lock, results, gate>>
       \/ /\ ~late /\ Works(container # "up") /\ gate' = FALSE
          /\ Goto(c, "plain") /\ UNCHANGED <<sends, lock, results, payload>>
    /\ UNCHANGED <<fixed, ownerVars, ran, lost, container, workerVars, sidecarVars>>

\* The reports are over: the command is released, or its gate is.
Release(c) ==
    /\ handler[c] = "gated"
    /\ IF Interrupted \/ payload[c] = "none"
       THEN Over(c, FALSE) /\ Stopped(c) /\ UNCHANGED ran
       ELSE Goto(c, "runs") /\ Starts(c) /\ UNCHANGED <<sends, lock, results>>
    /\ UNCHANGED <<fixed, ownerVars, gate, lost, container, workerVars, sidecarVars, bridgeFaults>>

\* docker exec, which a container that is not up refuses.
Plain(c) ==
    /\ handler[c] = "plain"
    /\ IF container = "up"
       THEN Goto(c, "plain runs") /\ Starts(c) /\ UNCHANGED <<sends, lock, results>>
       ELSE Over(c, TRUE) /\ UNCHANGED <<payload, ran>>
    /\ UNCHANGED <<fixed, ownerVars, gate, lost, container, workerVars, sidecarVars, bridgeFaults>>

\* Its output is kept, unless it cannot be decoded.
Finish(c) ==
    /\ handler[c] \in {"runs", "plain runs"} /\ payload[c] = "none"
    /\ \E ok \in BOOLEAN :
          /\ Over(c, ok) /\ Works(ok) /\ lost' = IF ok THEN lost ELSE lost \cup {c}
          /\ IF ~ok /\ handler[c] = "plain runs" /\ container = "up"
             THEN ContainerStops("stopped") ELSE SameContainer
    /\ UNCHANGED <<fixed, ownerVars, gate, ran, workerVars, sidecarVars>>

\* The tree of a gated command is killed; for another one the container is stopped.
Abort(c) ==
    /\ handler[c] \in {"runs", "plain runs"} /\ Interrupted /\ Over(c, FALSE)
    /\ \E ok \in BOOLEAN :
          /\ Works(ok) /\ lost' = IF ok THEN lost ELSE lost \cup {c}
          /\ IF ~ok THEN SameContainer
             ELSE IF handler[c] = "runs" THEN Stopped(c) /\ UNCHANGED container
             ELSE ContainerStops(IF container = "up" THEN "stopped" ELSE container)
    /\ UNCHANGED <<fixed, ownerVars, gate, ran, workerVars, sidecarVars>>

\* A call of the worker; an error is not kept.
Serve(c) ==
    /\ handler[c] = "send"
    /\ IF worker = "ready" THEN Goto(c, "served") /\ ran' = [ran EXCEPT ![c] = @ + 1]
                                /\ UNCHANGED <<sends, lock, results>>
                           ELSE Over(c, FALSE) /\ UNCHANGED ran
    /\ UNCHANGED <<fixed, ownerVars, gate, payload, lost, container, workerVars, sidecarVars, bridgeFaults>>

Served(c) ==
    /\ handler[c] = "served"
    /\ \E ok \in BOOLEAN :
          /\ ok => worker = "ready"
          /\ Over(c, ok) /\ lost' = IF ok THEN lost ELSE lost \cup {c}
    /\ UNCHANGED <<fixed, ownerVars, gate, payload, ran, container, workerVars, sidecarVars, bridgeFaults>>

\* The handler stops the worker, and its client is the one that hears how.
ServedStops(c) ==
    /\ handler[c] = "served" /\ Interrupted /\ Running
    /\ \E how \in Ways : StopWorker(how) /\ unheard' = (unheard \/ how = "killed")
    /\ Over(c, FALSE)
    /\ UNCHANGED <<fixed, ownerVars, dockerVars, sidecarVars>>

-----------------------------------------------------------------------------
(* The end of the task.                                                      *)

\* The last turn is over, or its agent could not be stopped.
AgentEnds ==
    /\ owner = "agent" /\ owner' = "bridge" /\ closing' = TRUE
    /\ \/ agent' = "gone" /\ failed' \in BOOLEAN /\ Works(TRUE) /\ UNCHANGED raising
       \/ agent' \in {"gone", "left"} /\ failed' = TRUE /\ raising' = TRUE /\ Fault
    /\ UNCHANGED <<fixed, bridgeVars, dockerVars, workerVars, sidecarVars>>

\* ToolBridge.__exit__ waits for the backend; what it raises skips nothing below.
LeaveBridge ==
    /\ owner = "bridge" /\ owner' = "quiesce"
    /\ Works(lock = Nobody) /\ raising' = (raising \/ lock # Nobody)
    /\ UNCHANGED <<fixed, agent, failed, closing, bridgeVars, dockerVars, workerVars, sidecarVars>>

\* Mutant: the runtime is drained whether or not its tools have stopped.
GoesOn(ok) == TRUE
Confirms(ok) == ok

\* quiesce, down and close: what cannot be confirmed raises, and only the rest of
\* the cleanup follows.
StopTools(at, how, then) ==
    /\ owner = at
    /\ \E ok \in BOOLEAN :
          /\ owner' = IF Confirms(ok) THEN then ELSE IF at = "close" THEN "over" ELSE "close"
          /\ raising' = (raising \/ ~ok)
          /\ IF form = "terminal"
             THEN /\ (IF ok THEN ContainerStops(how) ELSE SameContainer)
                  /\ Works(ok) /\ UNCHANGED <<worker, kids, admitted>>
             ELSE /\ SameContainer
                  /\ IF Running THEN \E w \in Ways : StopWorker(w) /\ ok = (w = "clean")
                     ELSE ok = (worker # "dirty") /\ Works(TRUE) /\ UNCHANGED <<worker, kids, admitted>>
    /\ UNCHANGED <<fixed, agent, failed, closing, bridgeVars, gate, ran, lost, unheard, sidecarVars>>

Quiesce ==
    StopTools("quiesce", "stopped", IF form = "terminal" /\ agent = "gone" /\ failed THEN "down" ELSE "drain")
Down == StopTools("down", "down", "abort")
Close == StopTools("close", "down", "release")

\* Abort and drain are best effort.
Tell(at, then) ==
    /\ owner = at /\ owner' = then
    /\ \E ok \in BOOLEAN : told' = (told \/ ok) /\ Works(ok)
    /\ UNCHANGED <<fixed, agent, failed, raising, closing, bridgeVars, dockerVars, workerVars, released>>

\* Only after the drain, and only if the scope is empty.
ReleaseScope ==
    /\ owner = "release" /\ owner' = "over"
    /\ IF form = "functions" /\ told
       THEN \E ok \in BOOLEAN :
              /\ ok => DeletesScope
              /\ released' = ok /\ admitted' = (admitted /\ ~ok) /\ raising' = (raising \/ ~ok)
              /\ Works(ok \/ ~DeletesScope)
       ELSE UNCHANGED <<released, admitted, raising, bridgeFaults>>
    /\ UNCHANGED <<fixed, agent, failed, closing, bridgeVars, dockerVars, worker, kids, unheard, told>>

-----------------------------------------------------------------------------
(* Time, commands and deaths.                                                *)

Late == ~late /\ late' = TRUE /\ UNCHANGED <<form, ownerVars, bridgeVars, dockerVars, workerVars,
                                             sidecarVars, bridgeFaults>>

CommandEnds(c) ==
    /\ payload[c] = "alive" /\ Stopped(c)
    /\ UNCHANGED <<fixed, ownerVars, bridgeVars, gate, ran, lost, container, workerVars, sidecarVars,
                   bridgeFaults>>

WorkerDies ==
    /\ worker \in {"loading", "ready"} /\ Fault
    /\ worker' = "dead" /\ unheard' = (unheard \/ kids)
    /\ UNCHANGED <<fixed, ownerVars, bridgeVars, dockerVars, kids, admitted, sidecarVars>>

Handler(c) ==
    \/ Enter(c) \/ Gate(c) \/ Release(c) \/ Plain(c) \/ Finish(c) \/ Abort(c)
    \/ Serve(c) \/ Served(c) \/ ServedStops(c)

Owner ==
    \/ SetUp \/ Admit \/ Load \/ Unmake \/ AgentEnds \/ LeaveBridge
    \/ Quiesce \/ Down \/ Tell("abort", "drain") \/ Tell("drain", "close") \/ Close \/ ReleaseScope

Next ==
    \/ Owner \/ Late \/ WorkerDies
    \/ \E c \in Requests : Arrive(c) \/ Handler(c) \/ CommandEnds(c)

Fairness ==
    /\ WF_taskVars(Owner)
    /\ \A c \in Requests : WF_taskVars(Handler(c)) /\ WF_taskVars(CommandEnds(c))

Spec == Init /\ [][Next]_taskVars /\ Fairness

-----------------------------------------------------------------------------
(* Properties.                                                              *)

TypeOK ==
    /\ owner \in {"setup", "admit", "load", "unmade", "agent", "bridge", "quiesce", "down", "abort",
                  "drain", "close", "release", "over"}
    /\ agent \in {"off", "runs", "left", "gone"}
    /\ handler \in [Requests -> {"none", "waits", "gate", "gated", "runs", "plain", "plain runs",
                                 "send", "served", "over"}]
    /\ lock \in Requests \cup {Nobody} /\ results \subseteq Requests /\ lost \subseteq Requests
    /\ payload \in [Requests -> {"none", "gated", "alive"}]
    /\ container \in {"none", "up", "stopped", "down"}
    /\ worker \in {"none", "blocked", "loading", "ready", "dead", "dirty"}

\* A command runs once, although requests are repeated, gates fail and deadlines
\* pass: a second time only if the first has no result and the task goes on.
RunsOnce == \A c \in Requests : ran[c] > 1 => c \in lost

\* When the sidecar is told that the runtime is over, none of its commands is alive
\* or will be, and its worker has ended, with its descendants unless nobody was left to hear
\* that they had not.
ToldIsQuiet ==
    told => /\ \A c \in Requests : payload[c] # "alive"
            /\ ~Running /\ (kids => unheard)

\* A worker has what the task gives it only in its own scope, which outlives it.
WorkerIsAdmitted ==
    /\ worker \in {"loading", "ready"} => admitted
    /\ released => ~Running /\ ~kids

ToolsAreOwned == RunsOnce /\ ToldIsQuiet /\ WorkerIsAdmitted

Ends == <>(owner = "over")
=============================================================================
