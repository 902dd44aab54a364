------------------------------ MODULE TaskVerdict ------------------------------
(***************************************************************************)
(* What a benchmark says of the telemetry of a task.  Each launched call of    *)
(* the agent leaves a span and, when its collector finished, an artifact in     *)
(* the trace; a record that cannot be written or parsed is missing there.  When *)
(* the task is over, the runner counts spans, envelopes, artifacts, outcomes    *)
(* and knowledge-base updates in the files and compares the numbers.           *)
(*                                                                         *)
(* The audit counts, so the order of the calls does not matter: they run one     *)
(* after the other here.                                                       *)
(***************************************************************************)
EXTENDS Naturals, FiniteSets

CONSTANTS
    MaxCalls,        \* bound: launched calls of a task
    MaxStrictCalls,  \* and of a strict one
    Paths,           \* cgroups, one of which is the container's
    Shared,          \* that one
    NoPath,          \* the call was followed by its process identifiers
    MaxFaults

VARIABLES
    strict,     \* docker.cgroup_required
    frozen,     \* runtime.kb_frozen
    calls,      \* the calls whose collector has finished
    open,       \* whether the last of them still runs
    produced,   \* what the artifact of a call says, where it has one
    spans,      \* the span_end records of the trace
    artifacts,  \* the calls whose artifact is in the trace
    verdict,    \* telemetry_audit.status
    faults

vars == <<strict, frozen, calls, open, produced, spans, artifacts, verdict, faults>>

Count(S) == Cardinality(S)

\* _summarize_call: a call with gaps is invalid, for reasons that it names, and
\* keeps the clauses that were mapped.  Losses and a failed analysis are faults.
Outcomes ==
    { [lost |-> l, gaps |-> g, analysed |-> a, clauses |-> n, rooted |-> r] :
        l \in BOOLEAN, g \in BOOLEAN, a \in BOOLEAN, r \in BOOLEAN,
        n \in {"mapped", "failed to run", "builtin"} }

Ok(o) == o.analysed /\ ~o.lost /\ ~o.gaps
EligibleForKb(o) == Ok(o)
FaultsOf(o) == Count({f \in {"lost", "analysed", "rooted"} : o[f] = (f = "lost")})

\* finish_command adds the rows of the mapped clauses, of an invalid call too.
Adds(o) == ~frozen /\ o.clauses = "mapped"

(***************************************************************************)
(* A task.                                                                   *)
(***************************************************************************)
Init ==
    /\ strict \in BOOLEAN /\ frozen \in BOOLEAN
    /\ calls = 0 /\ open = FALSE
    /\ produced = << >>
    /\ spans = {} /\ artifacts = {}
    /\ verdict = "none"
    /\ faults = 0

Fault(n) == faults' = faults + n /\ faults' <= MaxFaults

\* The next launched command.
Starts ==
    /\ verdict = "none" /\ ~open
    /\ calls' = calls + 1 /\ open' = TRUE
    /\ calls < IF strict THEN MaxStrictCalls ELSE MaxCalls

\* It ends and its collector is finished.
Finish(o) ==
    /\ Starts
    /\ o.analysed \/ o.clauses # "mapped"
    /\ produced' = [c \in DOMAIN produced \cup {calls'} |-> IF c = calls' THEN o ELSE produced[c]]
    /\ Fault(FaultsOf(o))
    /\ UNCHANGED <<strict, frozen, spans, artifacts, verdict>>

\* The collector could not start or finish.
FinishWithout ==
    /\ Starts
    /\ Fault(1)
    /\ UNCHANGED <<strict, frozen, produced, spans, artifacts, verdict>>

\* The span of a completed call: its scope, its summary, its prediction.  Updating
\* the knowledge base may fail.
Span(c, path, updated, predicted) ==
    [call |-> c, path |-> path,
     full |-> c \in DOMAIN produced,
     updates |-> c \in DOMAIN produced /\ Adds(produced[c]) /\ updated,
     predicted |-> predicted]

\* The writer puts the artifact of a finished call into the trace, or fails to.
Record(written) ==
    artifacts' = IF written THEN artifacts \cup ({calls} \cap DOMAIN produced) ELSE artifacts

\* The call is completed; each of the steps may fail.
Complete(path, updated, predicted, spanOk, artifactOk) ==
    /\ open /\ open' = FALSE
    /\ spans' = IF spanOk THEN spans \cup {Span(calls, path, updated, predicted)} ELSE spans
    /\ Record(artifactOk)
    /\ Fault(Count({i \in 1..4 : ~<<updated, predicted, spanOk, artifactOk>>[i]}))
    /\ UNCHANGED <<strict, frozen, calls, produced, verdict>>

\* The agent is killed in the call: its runtime is aborted, which records what the
\* collector found.
Abort(artifactOk) ==
    /\ open /\ open' = FALSE
    /\ Record(artifactOk)
    /\ Fault(IF artifactOk THEN 0 ELSE 1)
    /\ UNCHANGED <<strict, frozen, calls, produced, spans, verdict>>

(***************************************************************************)
(* The audit.                                                                *)
(***************************************************************************)
Launched == spans
Expected == Count(Launched)

\* What the artifacts of the task say of their calls.
Inspected == {[call |-> c, says |-> produced[c]] : c \in artifacts}

\* _required_host_openclaw_cgroup_error
Exclusive ==
    /\ Launched # {}
    /\ \A s \in Launched : s.path \notin {NoPath, Shared}
    /\ Count({s.path : s \in Launched}) = Expected

\* A healthy collector lost nothing.
Healthy(o) == ~o.lost
Rooted(o) == o.rooted
AnalysisFailed(o) == ~o.analysed
RejectedForAReason(o) == o.analysed /\ ~Ok(o)
\* no_runtime_exec: a clause that is known to have failed to run.
RanNothing(o) == EligibleForKb(o) /\ o.clauses = "failed to run"

\* Mutant: as many references, whichever they are.
AsManyReferences == Count({s \in Launched : s.full}) = Count(artifacts)
\* Trace and artifacts name the same calls.
SameReferences == {s.call : s \in {t \in Launched : t.full}} = artifacts

ExpectedUpdates == IF frozen THEN 0 ELSE Count({i \in Inspected : EligibleForKb(i.says) /\ ~RanNothing(i.says)})

Predicted(s) == s.predicted
AllPredicted == \A s \in Launched : Predicted(s)

\* _required_telemetry_error, None
Accepts ==
    /\ strict => Exclusive
    /\ Expected # 0
    /\ Count({s \in Launched : s.full}) = Expected
    /\ Count(artifacts) = Expected
    /\ SameReferences
    /\ \A i \in Inspected :
          LET o == i.says IN
          /\ Healthy(o) /\ Rooted(o) /\ ~AnalysisFailed(o)
          /\ EligibleForKb(o) \/ RejectedForAReason(o)
    /\ Count({s \in Launched : s.updates}) = ExpectedUpdates
    /\ AllPredicted

\* handle_result.  A task without spans whose agent failed is not judged.
Judge(agentFailed) ==
    /\ verdict = "none"
    /\ ~open
    /\ verdict' = IF agentFailed /\ spans = {} THEN "not_evaluable"
                  ELSE IF Accepts THEN "passed" ELSE "failed"
    /\ UNCHANGED <<strict, frozen, calls, open, produced, spans, artifacts, faults>>

\* The cgroup of a call matters to a strict run only.
Next ==
    \/ \E o \in Outcomes : Finish(o)
    \/ FinishWithout
    \/ \E path \in (IF strict THEN Paths ELSE {}) \cup {NoPath}, ok \in [1..4 -> BOOLEAN] :
         Complete(path, ok[1], ok[2], ok[3], ok[4])
    \/ \E written \in BOOLEAN : Abort(written)
    \/ \E agentFailed \in BOOLEAN : Judge(agentFailed)

Spec == Init /\ [][Next]_vars

(***************************************************************************)
(* Properties.                                                               *)
(***************************************************************************)
\* The numbers stand for calls: when they agree, every call that left a span or an
\* artifact left both, it was measured from its own root without a loss, and in a
\* strict run alone in its cgroup.
PassedIsMeasured ==
    verdict = "passed" =>
        \A c \in 1..calls :
            LET mine == {s \in spans : s.call = c}
            IN  mine # {} \/ c \in artifacts =>
                  /\ mine # {} /\ c \in artifacts
                  /\ produced[c].rooted /\ ~produced[c].lost /\ produced[c].analysed
                  /\ strict => \A s \in mine, t \in spans \ mine :
                                  s.path \notin {NoPath, Shared, t.path}

\* What a test says of explicit semantic rejections: where nothing was lost and
\* every call is rejected for a reason, the task passes.
ExplainedIsAccepted ==
    (/\ verdict = "failed" /\ faults = 0 /\ ~strict
     /\ spans # {} /\ {s.call : s \in spans} = artifacts)
        => \E c \in artifacts : ~RejectedForAReason(produced[c])
=============================================================================
