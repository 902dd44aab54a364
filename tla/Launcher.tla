-------------------------------- MODULE Launcher --------------------------------
(***************************************************************************)
(* clawtune-launch (launcher.py): the process that a wrapped command runs    *)
(* under.  It claims the execution at the sidecar, keeps the payload behind a *)
(* gate until the sidecar has its collectors attached (/started), opens the   *)
(* gate, waits and reports the exit.  When the first child cannot enter its   *)
(* cgroup, a second one is started in a systemd scope and takes its place.    *)
(***************************************************************************)
EXTENDS Naturals, FiniteSets

CONSTANTS Modes,       \* of "subprocess", "forkexec" (CLAWTUNE_LAUNCH_MODE), "degraded"
          MaxFaults    \* bound: calls that raise, replies that are lost, signals

ASSUME LauncherAssumption ==
    Modes \subseteq {"subprocess", "forkexec", "degraded"} /\ MaxFaults \in Nat

VARIABLES
    mode,
    env,      \* what is set: FAIL_OPEN, CGROUP_REQUIRED without it, the host gate
    pc,       \* of the launcher
    claim,    \* the execution at the sidecar
    started,  \* the sidecar stored its start
    cgroup,   \* the launcher has a cgroup for its child
    child,    \* the process behind each gate
    gate,     \* "shut", "open" or "closed" without a release
    target,   \* the child that is waited for
    ran,      \* children that have executed the payload
    armed,    \* the signal forwarders are installed
    reports,  \* exit reports sent
    faults

launcher == <<mode, env, cgroup, target>>
vars == <<launcher, pc, claim, started, child, gate, ran, armed, reports, faults>>

Children == {"first", "second"}
Ended == {"done", "killed"}
Strict == "strict" \in env       \* CGROUP_REQUIRED and not FAIL_OPEN
FailOpen == "failOpen" \in env
HostGate == "hostGate" \in env
Observed == mode \in {"subprocess", "forkexec"}
\* No cgroup is an error: a degraded run has no sidecar to make one.
NeedsOwn == Strict /\ ~(HostGate /\ Observed)

Init ==
    /\ mode \in Modes
    /\ env \in {{}, {"failOpen"}, {"strict"}, {"hostGate"}, {"strict", "hostGate"}}
    /\ pc = IF mode = "degraded" THEN "prepare" ELSE "claim"
    /\ claim = "registered" /\ started = FALSE /\ cgroup = FALSE
    /\ child = [c \in Children |-> "none"] /\ gate = [c \in Children |-> "shut"]
    /\ target = "first" /\ ran = {} /\ armed = FALSE /\ reports = 0 /\ faults = 0

Fault == faults < MaxFaults /\ faults' = faults + 1

TypeOK ==
    /\ claim \in {"registered", "claimed", "exited"}
    /\ mode \in Modes \cup {"unobserved"} /\ cgroup \in BOOLEAN
    /\ reports \in 0..(IF mode = "forkexec" THEN 3 ELSE 2)
    /\ child \in [Children -> {"none", "gated", "paused", "running", "dying", "gone"}]
    /\ gate \in [Children -> {"shut", "open", "closed"}]
    /\ target \in Children /\ ran \subseteq Children /\ faults \in 0..MaxFaults

\* _terminate_child_best_effort: TERM, then KILL, a second for each.
Terminated(c) ==
    IF child[c] \in {"none", "gone"} THEN {child[c]} ELSE {"gone", "dying"}

-----------------------------------------------------------------------------
(* Before a child exists.                                                   *)

\* _claim_execution; a claim whose reply is lost may have been stored.
Claim ==
    /\ pc = "claim"
    /\ \/ claim' = "claimed" /\ pc' = "prepare" /\ UNCHANGED <<mode, faults>>
       \/ /\ Fault /\ claim' \in {"registered", "claimed"}
          /\ IF FailOpen THEN mode' = "unobserved" /\ pc' = "unobserved"
                         ELSE pc' = "done" /\ UNCHANGED mode
    /\ UNCHANGED <<env, cgroup, target, started, child, gate, ran, armed, reports>>

\* _run_unobserved: no gate, no sidecar.
Unobserved ==
    /\ pc = "unobserved"
    /\ child' = [child EXCEPT !["first"] = "running"] /\ ran' = {"first"}
    /\ gate' = [gate EXCEPT !["first"] = "open"] /\ pc' = "arm"
    /\ UNCHANGED <<launcher, claim, started, armed, reports, faults>>

\* _prepare_cgroup_with_host_fallback
Prepare ==
    /\ pc = "prepare"
    /\ cgroup' \in BOOLEAN
    /\ pc' = IF NeedsOwn /\ ~cgroup' THEN "report" ELSE "spawn"
    /\ UNCHANGED <<mode, env, target, claim, started, child, gate, ran, armed, reports, faults>>

\* _spawn_shell_gated, os.fork
Spawn ==
    /\ pc = "spawn"
    /\ \/ child' = [child EXCEPT !["first"] = "gated"] /\ pc' = "join" /\ UNCHANGED faults
       \/ Fault /\ pc' = "report" /\ UNCHANGED child
    /\ UNCHANGED <<launcher, claim, started, gate, ran, armed, reports>>

-----------------------------------------------------------------------------
(* The child enters its cgroup, or a second child does.                     *)

\* _join_child_cgroup_with_host_fallback
Join ==
    /\ pc = "join"
    /\ \/ pc' = "start" /\ UNCHANGED launcher
       \/ /\ cgroup /\ cgroup' = FALSE /\ UNCHANGED <<mode, env, target>>
          /\ pc' = IF NeedsOwn THEN "abandon" ELSE IF mode = "forkexec" THEN "start" ELSE "scope"
    /\ UNCHANGED <<claim, started, child, gate, ran, armed, reports, faults>>

\* _restart_in_systemd_scope: the first child is stopped while the second starts ...
Scope ==
    /\ pc = "scope"
    /\ \/ pc' = "start" /\ UNCHANGED child
       \/ child' = [child EXCEPT !["first"] = "paused", !["second"] = "gated"] /\ pc' = "probe"
    /\ UNCHANGED <<launcher, claim, started, gate, ran, armed, reports, faults>>

\* Mutant: the first child is not resumed.
ResumedNever(c) == c
Resumed(c) == IF c = "paused" THEN "gated" ELSE c

\* ... and is left at that when its cgroup is not found ...
Probe ==
    /\ pc = "probe"
    /\ \/ /\ pc' = IF mode = "degraded" THEN "open" ELSE "start2"
          /\ UNCHANGED child
       \/ \E end \in Terminated("second") :
          /\ child' = [first |-> Resumed(child["first"]), second |-> end]
          /\ pc' = "start"
    /\ UNCHANGED <<launcher, claim, started, gate, ran, armed, reports, faults>>

\* _post_started: FAIL_OPEN turns an error into an acknowledgement.
Acknowledged(stored) == stored

Start(next) ==
    \/ started' = TRUE /\ pc' = next /\ UNCHANGED faults
    \/ /\ Fault /\ started' \in BOOLEAN   \* lost before or after the sidecar took it
       /\ pc' = IF FailOpen THEN next ELSE "abandon"
    \/ /\ Fault /\ started' = FALSE       \* "stored": false
       /\ pc' = IF Acknowledged(FALSE) THEN next ELSE "abandon"

\* ... on_cgroup_ready, and when it fails everything is undone ...
StartSecond ==
    /\ pc = "start2" /\ Start("open")
    /\ IF pc' = "open" THEN UNCHANGED <<child, gate>>
       ELSE \E end \in Terminated("second") :
            /\ gate' = [gate EXCEPT !["second"] = "closed"]
            /\ child' = [first |-> Resumed(child["first"]), second |-> end]
    /\ UNCHANGED <<launcher, claim, ran, armed, reports>>

\* ... the second gate opens ...
OpenSecond ==
    /\ pc = "open"
    /\ \/ /\ gate' = [gate EXCEPT !["second"] = "open"] /\ pc' = "drop"
          /\ UNCHANGED <<child, faults>>
       \/ \E end \in Terminated("second") :
          /\ Fault /\ gate' = [gate EXCEPT !["second"] = "closed"]
          /\ child' = [first |-> Resumed(child["first"]), second |-> end]
          /\ pc' = "abandon"
    /\ UNCHANGED <<launcher, claim, started, ran, armed, reports>>

\* Mutant: the gate of the child that was replaced is opened like the other.
ReplacedOpens == "open"
Replaced == "closed"

\* ... and the first child goes: terminated if that works, never released.
DropFirst ==
    /\ pc = "drop"
    /\ child' \in {[child EXCEPT !["first"] = s] : s \in Terminated("first") \cup {"gated"}}
    /\ gate' = [gate EXCEPT !["first"] = Replaced]
    /\ target' = "second" /\ cgroup' = TRUE
    /\ pc' = "wait" /\ armed' = (mode = "subprocess")
    /\ UNCHANGED <<mode, env, claim, started, ran, reports, faults>>

-----------------------------------------------------------------------------
(* The gate of the first child.                                             *)

StartFirst ==
    /\ pc = "start"
    /\ IF mode = "degraded"
       THEN pc' = "release" /\ UNCHANGED <<started, armed, faults>>
       ELSE IF ~cgroup /\ NeedsOwn
       THEN pc' = "abandon" /\ UNCHANGED <<started, armed, faults>>
       ELSE Start("release") /\ armed' = (mode = "subprocess")
    /\ UNCHANGED <<launcher, claim, child, gate, ran, reports>>

\* fork-exec installs its forwarders only now; a degraded run never does.
Release ==
    /\ pc = "release" /\ gate' = [gate EXCEPT !["first"] = "open"]
    /\ pc' = IF mode = "forkexec" THEN "arm" ELSE "wait"
    /\ UNCHANGED <<launcher, claim, started, child, ran, armed, reports, faults>>

Arm ==
    /\ pc = "arm" /\ armed' = TRUE /\ pc' = "wait"
    /\ UNCHANGED <<launcher, claim, started, child, gate, ran, reports, faults>>

\* Mutant: a child that was killed counts as gone.
ConfirmedAlways(c) == TRUE
\* _terminate_child_and_confirm
Confirmed(c) == c = "gone"

\* Nothing was released: the gate closes and the child is seen to end, or the
\* claim is left to the sidecar (_CleanupUnconfirmed).
Abandon ==
    /\ pc = "abandon" /\ gate' = [gate EXCEPT !["first"] = "closed"]
    /\ child' \in {[child EXCEPT !["first"] = s] : s \in Terminated("first")}
    /\ pc' = IF Confirmed(child'["first"]) THEN "report" ELSE "done"
    /\ UNCHANGED <<launcher, claim, started, ran, armed, reports, faults>>

\* child.wait() or waitpid fails: only the subprocess mode ends the child.
Wait ==
    /\ pc = "wait"
    /\ \/ child[target] = "gone" /\ pc' = "report" /\ UNCHANGED <<child, faults>>
       \/ /\ Fault /\ mode = "subprocess"
          /\ child' \in {[child EXCEPT ![target] = s] : s \in Terminated(target)}
          /\ pc' = IF Confirmed(child'[target]) THEN "report" ELSE "done"
       \/ Fault /\ mode # "subprocess" /\ pc' = "done" /\ UNCHANGED child
    /\ UNCHANGED <<launcher, claim, started, gate, ran, armed, reports>>

\* _post_json_best_effort
Attempts(sent) == sent = (IF mode = "forkexec" THEN 2 ELSE 1)

\* A degraded or unobserved run reports nothing.
Report ==
    /\ pc = "report"
    /\ \/ ~Observed /\ pc' = "done" /\ UNCHANGED <<claim, reports, faults>>
       \/ Observed /\ claim' = "exited" /\ pc' = "done" /\ UNCHANGED <<reports, faults>>
       \/ /\ Observed /\ Fault
          /\ claim' \in {claim, "exited"} /\ reports' = reports + 1
          /\ pc' = IF Attempts(reports) THEN "done" ELSE "report"
    /\ UNCHANGED <<launcher, started, child, gate, ran, armed>>

-----------------------------------------------------------------------------
(* A cancelled command: TERM reaches the launcher, which forwards it or dies. *)

Cancel ==
    /\ pc \notin Ended /\ Fault
    /\ IF armed
       THEN /\ child' = [child EXCEPT ![target] = IF @ \in {"gated", "running"} THEN "dying" ELSE @]
            /\ UNCHANGED <<pc, gate>>
       ELSE /\ pc' = "killed" /\ UNCHANGED child
            /\ gate' = [gate EXCEPT !["first"] = IF @ = "shut" THEN "closed" ELSE @]
    /\ UNCHANGED <<launcher, claim, started, ran, armed, reports>>

(* The wrapper in front of the payload.                                     *)

\* _exec_gate_opened and the wrappers' check of the token
Passes(c) == gate[c] = "open"

Exec(c) ==
    /\ child[c] = "gated" /\ Passes(c)
    /\ child' = [child EXCEPT ![c] = "running"] /\ ran' = ran \cup {c}
    /\ UNCHANGED <<launcher, pc, claim, started, gate, armed, reports, faults>>

\* The scope's wrapper gives up after 65 seconds; a launcher that was killed
\* never decides.
Leave(c) ==
    /\ child[c] = "gated"
    /\ \/ gate[c] = "closed" /\ ~Passes(c) /\ UNCHANGED faults
       \/ gate[c] = "shut" /\ c = "second" /\ IF pc \in Ended THEN UNCHANGED faults ELSE Fault
    /\ child' = [child EXCEPT ![c] = "gone"]
    /\ UNCHANGED <<launcher, pc, claim, started, gate, ran, armed, reports>>

End(c) ==
    /\ child[c] \in {"running", "dying"} /\ child' = [child EXCEPT ![c] = "gone"]
    /\ UNCHANGED <<launcher, pc, claim, started, gate, ran, armed, reports, faults>>

Step ==
    \/ Claim \/ Unobserved \/ Prepare \/ Spawn \/ Join \/ Scope \/ Probe
    \/ StartSecond \/ OpenSecond \/ DropFirst \/ StartFirst \/ Release \/ Arm
    \/ Abandon \/ Wait \/ Report

Next ==
    \/ Step \/ Cancel
    \/ \E c \in Children : Exec(c) \/ Leave(c) \/ End(c)

Spec == Init /\ [][Next]_vars

\* Every call of the launcher has a timeout; the payload is assumed to end.
FairSpec ==
    /\ Spec /\ WF_vars(Step /\ faults' = faults)
    /\ \A c \in Children : WF_vars(Exec(c)) /\ WF_vars(Leave(c) /\ faults' = faults) /\ WF_vars(End(c))

-----------------------------------------------------------------------------
(* Properties.                                                              *)

\* A command is never run twice: not by the child that was replaced, not by a
\* retry after a claim whose reply was lost.
PayloadOnce == Cardinality(ran) <= 1

\* The payload of an observed execution starts only after the sidecar stored
\* its start; who asked for fail-open may run without.
GateHolds == Observed /\ ran # {} /\ ~FailOpen => started

PayloadGuarded == PayloadOnce /\ GateHolds

\* Once the sidecar was told that the execution has exited, no child that
\* passed its gate is alive and none can pass it any more.
ExitIsTruthful ==
    claim = "exited" => \A c \in Children : gate[c] = "open" => child[c] = "gone"

\* The launcher ends and leaves no child behind, except the one it had stopped
\* when it was killed.
LauncherEnds ==
    <>[](pc \in Ended /\ \A c \in Children :
         child[c] \in {"none", "gone"} \/ (child[c] = "paused" /\ pc = "killed"))

=============================================================================
