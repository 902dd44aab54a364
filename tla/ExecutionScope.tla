----------------------------- MODULE ExecutionScope -----------------------------
(***************************************************************************)
(* Whose resources an execution's are: the scope that the sidecar works out    *)
(* for a managed execution when its launcher reports /started (api/app.py).     *)
(* The launcher may see its child from inside a sandbox: its process id is then  *)
(* another process's on the host, its cgroup path may be nothing there. The      *)
(* sidecar finds the process, moves it into a cgroup of its own or derives where  *)
(* it is, binds the tool monitor, starts the collector, and only then answers,    *)
(* which opens the gate. The sandbox's own scope may be discovered before,         *)
(* meanwhile or after; the completion takes the best scope there is.               *)
(***************************************************************************)

VARIABLES place,       \* where the launcher runs: "sandbox" or "host"
          required,    \* tool_resource_ebpf_required
          cgroup,      \* the cgroup of each process that is alive
          stage,       \* of /started, and with it the launcher's gate
          request,     \* what the launcher reported
          sandbox,     \* the sandbox's scope has been discovered
          scope,       \* the registry's scope of the execution
          monitor,     \* the scope of the tool monitor's window
          collector,   \* what the eBPF collector follows, once it is active
          task,        \* the start of a collector in progress (starting_tasks)
          label        \* the scope that the completion was given

vars == <<place, required, cgroup, stage, request, sandbox, scope, monitor,
          collector, task, label>>

None == "none"
\* The execution's gated process, the one it forks, and the process that has
\* the same number on the host as the first has in the sandbox.
Root == "root"
Kid == "kid"
Stranger == "stranger"
Tree == {Root, Kid}
Alive(p) == cgroup[p] # None

\* <root>/env-<digest>/<execution id>, which exists while a process is in it.
Own == "own"
Members(g) == {p \in Tree \cup {Stranger} : cgroup[p] = g}

(* Scopes: what they name and who says so.                                     *)
NoScope == [pid |-> None, path |-> None, by |-> None]
BoxScope == [pid |-> None, path |-> "box", by |-> "sandbox"]
Authoritative(s) == s.by \in {"exclusive", "trusted"}
Usable(s) == s.path \notin {None, "namespaced"}    \* a directory of the host
Measured(s) == IF Usable(s) THEN Members(s.path) ELSE {s.pid} \ {None}

Requests == [identity : {"full", "partial", "none"},   \* namespace and start time
             gate : BOOLEAN,                           \* host_cgroup_gate
             strict : BOOLEAN,                         \* cgroup_required
             path : {None, "namespaced", "host"},
             container : BOOLEAN]                      \* knows its container's id
NoRequest == [identity |-> None, gate |-> FALSE, strict |-> FALSE,
              path |-> None, container |-> FALSE]

(* The execution is claimed. With a known sandbox its collector may have been     *)
(* started by the claim.                                                        *)
Init ==
    /\ place \in {"sandbox", "host"} /\ required \in BOOLEAN
    /\ sandbox \in BOOLEAN /\ (sandbox => place = "sandbox")
    /\ cgroup = [p \in Tree \cup {Stranger} |->
                    CASE p = Root -> IF place = "sandbox" THEN "box" ELSE "session"
                      [] p = Kid -> None
                      [] p = Stranger -> "elsewhere"]
    /\ stage = "gated" /\ request = NoRequest
    /\ scope = NoScope /\ label = NoScope
    /\ monitor = IF sandbox THEN BoxScope ELSE NoScope
    /\ collector \in {None} \cup (IF sandbox THEN {"scope"} ELSE {})
    /\ task = None

(* _resolve_host_pid: a number is looked for by its namespace and start time;      *)
(* without either it is taken for a number of the host.                          *)
Resolved(q) ==
    IF q.identity = "none" /\ place = "sandbox" THEN Stranger
    ELSE IF Alive(Root) THEN Root ELSE None
Trusted(q) == IF q.identity = "full" THEN Resolved(q) ELSE None

(* ExecutionRegistry.started: the launcher's own words, at first.                  *)
Claimed(q) ==
    [pid |-> IF place = "sandbox" THEN Stranger ELSE Root,
     path |-> IF q.path = "host" THEN cgroup[Root] ELSE q.path, by |-> "launcher"]

(* _host_cgroup_path_for_pid: where the kernel says the process is.                *)
HostPath(p) == cgroup[p]

(* _verified_host_execution_scope; and _verified_host_pid_scope, for want of it.       *)
Derived == [pid |-> Root, path |-> HostPath(Root), by |-> "trusted"]
PidScope == [pid |-> Root, path |-> None, by |-> "trusted"]

KnowsContainer(q) == q.container \/ sandbox

(* bind_scope: a pid of the launcher's is replaced by the sandbox, and a window that   *)
(* has an exclusive scope keeps it.                                              *)
Bound(s) ==
    LET used == IF sandbox /\ ~Usable(s) /\ ~Authoritative(s) THEN BoxScope ELSE s
    IN  IF s = NoScope \/ (monitor.by = "exclusive" /\ used.by # "exclusive") THEN monitor ELSE used

(* begin_ebpf_for_record: whoever comes second waits for the start of the first.      *)
Starting(root) == IF task = None THEN root ELSE task
Follows(q) == IF Trusted(q) = None THEN "scope" ELSE Root

(* A plausible bug: the launcher's scope outlives a failed verification.            *)
UnlessTrustedKept(q, s) == IF Usable(s) THEN {s} ELSE {Claimed(q)}
(* A trusted process is measured where it is, or alone.                           *)
UnlessTrusted(q, s) ==
    IF Trusted(q) # None /\ ~Usable(s) THEN {Derived, PidScope} ELSE {s}

(* The end of the handler, given the scope of its first part.                      *)
Settle(q, first, gateFailed) ==
    \E s \in UnlessTrusted(q, first) :
       /\ scope' = s
       /\ monitor' = Bound(s)
       /\ IF (KnowsContainer(q) \/ (Trusted(q) # None /\ Usable(s))) /\ ~gateFailed
          THEN stage' = "starting" /\ task' = Starting(Follows(q))
          ELSE stage' = (IF required THEN "refused" ELSE "released") /\ UNCHANGED task

Receives(q) ==
    /\ stage = "gated"
    /\ place = "host" => ~q.container /\ q.path # "namespaced"
    /\ request' = q
    /\ UNCHANGED <<place, required, sandbox, collector, label>>
Refuses == stage' = "refused" /\ scope' = NoScope /\ UNCHANGED <<monitor, task>>
Unverified(q) == q.identity = "full" /\ Trusted(q) = None

(* An identity that is supplied and cannot be found is refused (422).               *)
StartedUnverified(q) ==
    /\ Receives(q) /\ Unverified(q)
    /\ Refuses
    /\ UNCHANGED cgroup

(* _move_pid_tree_into_cgroup.                                                   *)
MovedInto(g, p) == [cgroup EXCEPT ![p] = g]

(* _prepare_host_execution_cgroup: a cgroup of its own, into which the process is      *)
(* moved.                                                                       *)
StartedOwn(q) ==
    /\ Receives(q) /\ ~Unverified(q) /\ q.gate /\ Resolved(q) # None
    /\ cgroup' = MovedInto(Own, Resolved(q))
    /\ Settle(q, [pid |-> Resolved(q), path |-> Own, by |-> "exclusive"], FALSE)

(* None of the roots it could be in is delegated, or the process has gone: 503, or      *)
(* the verified place of the process.                                            *)
StartedUndelegated(q) ==
    /\ Receives(q) /\ ~Unverified(q) /\ q.gate
    /\ IF q.strict THEN Refuses
       ELSE \/ Trusted(q) # None /\ Settle(q, Derived, FALSE)
            \/ Settle(q, NoScope, TRUE)
    /\ UNCHANGED cgroup

(* Without a gate, the claim of a launcher on the host itself has to be verified.        *)
StartedUngated(q) ==
    /\ Receives(q) /\ ~Unverified(q) /\ ~q.gate
    /\ IF KnowsContainer(q) THEN Settle(q, Claimed(q), FALSE)
       ELSE \/ Trusted(q) # None /\ Settle(q, Derived, FALSE)
            \/ Settle(q, NoScope, FALSE)
    /\ UNCHANGED cgroup

(* begin_execution: an active collector takes the root, another is attached or          *)
(* fails, which refuses the gate of an execution that needs one (503).                 *)
StartEnds ==
    /\ task # None /\ task' = None
    /\ \/ /\ collector' = IF task = Root THEN Root ELSE IF collector = None THEN "scope" ELSE collector
          /\ stage' = IF stage = "starting" THEN "released" ELSE stage
       \/ /\ collector = None /\ UNCHANGED collector
          /\ stage' = IF stage # "starting" THEN stage ELSE IF required THEN "refused" ELSE "released"
    /\ UNCHANGED <<place, required, cgroup, request, sandbox, scope, monitor, label>>

(* store_sandbox_scope: the collector of an active execution is started, and a          *)
(* window is rebound whose path the sidecar has not verified.                       *)
Discover ==
    /\ place = "sandbox" /\ ~sandbox
    /\ sandbox' = TRUE
    /\ task' = IF stage # "refused" /\ label = NoScope THEN Starting(Follows(request)) ELSE task
    /\ monitor' = IF scope.path \notin {None, "box"} /\ ~Authoritative(scope)
                  THEN Bound(BoxScope) ELSE monitor
    /\ UNCHANGED <<place, required, cgroup, stage, request, scope, collector, label>>

(* A released process forks; a refused one is ended, any other ends by itself.          *)
Fork ==
    /\ stage = "released" /\ Alive(Root) /\ ~Alive(Kid)
    /\ cgroup' = [cgroup EXCEPT ![Kid] = cgroup[Root]]
    /\ UNCHANGED <<place, required, stage, request, sandbox, scope, monitor, collector, task, label>>
Exit(p) ==
    /\ p \in Tree /\ Alive(p)
    /\ cgroup' = [cgroup EXCEPT ![p] = None]
    /\ UNCHANGED <<place, required, stage, request, sandbox, scope, monitor, collector, task, label>>

(* The completion, whose event carries nothing, the sandbox, or the process that the      *)
(* docker observer has found: completed_with_execution_scope, which waits a little for    *)
(* the registry, and completed_with_sandbox_fallback.                              *)
Supplied == {NoScope, [pid |-> Root, path |-> None, by |-> "inferred"]}
            \cup IF place = "sandbox" THEN {BoxScope} ELSE {}
Best(s) ==
    IF Authoritative(scope) THEN scope
    ELSE IF s = NoScope /\ (Usable(scope) \/ ~sandbox) THEN scope
    ELSE s
InSandbox(s) == IF sandbox /\ ~Authoritative(s) /\ ~Usable(s) THEN BoxScope ELSE s

Complete(s) ==
    /\ stage = "released" /\ label = NoScope
    /\ label' = InSandbox(Best(s))
    /\ UNCHANGED <<place, required, cgroup, stage, request, sandbox, scope, monitor, collector, task>>

Next ==
    \/ \E q \in Requests :
          \/ StartedUnverified(q) \/ StartedOwn(q)
          \/ StartedUndelegated(q) \/ StartedUngated(q)
    \/ StartEnds \/ Discover \/ Fork
    \/ \E p \in Tree : Exit(p)
    \/ \E s \in Supplied : Complete(s)

Spec == Init /\ [][Next]_vars

(***************************************************************************)
(* Properties.                                                               *)
(***************************************************************************)
Scopes == {scope, monitor, label} \ {NoScope}
Read == request.identity = "full"

\* What is measured as the execution's is the execution's: wherever a launcher
\* that can name its child says it is, whenever the sandbox is discovered, and
\* whatever could not be moved or derived, each scope covers the execution's
\* process as long as it lives, and the process that has its number on the host
\* is in none of them. An exclusive cgroup holds its processes and no other.
ScopeCoversItsOwn ==
    Read => \A s \in Scopes :
        /\ Alive(Root) => Root \in Measured(s)
        /\ Stranger \notin Measured(s)
        /\ s.by = "exclusive" /\ Alive(Kid) => Kid \in Measured(s)

\* A gate opens over what was required: a collector, a cgroup of one's own.
GateIsMet ==
    stage = "released" =>
        /\ required => collector # None
        /\ Read /\ request.gate /\ request.strict => scope.by = "exclusive"

ScopeIsItsOwn == ScopeCoversItsOwn /\ GateIsMet

\* "supply a root PID whose PID namespace and process start time were verified":
\* an execution that did, and has a cgroup of its own, is released with a collector
\* that follows its root, not whatever runs in its container.
FollowsItsRoot ==
    stage = "released" /\ scope.by = "exclusive" /\ Read /\ collector # None /\ task = None
        => collector = Root
=============================================================================
