----------------------------- MODULE Admission -----------------------------
(***************************************************************************)
(* Admission of tool executions: the leases of admission/leases.py, the     *)
(* registry of executions.py, and the handlers of api/app.py that change    *)
(* both (decision, registration, claim, exit, completion, runtime abort and *)
(* teardown).  Handlers interleave only where they await; the body of the   *)
(* lease lock never does, so every lease operation is one step.             *)
(*                                                                          *)
(* A call has at most one decision and one execution, so its lease and its  *)
(* record are indexed by the call.  Time is abstracted to the deadlines     *)
(* that have passed.                                                        *)
(***************************************************************************)
EXTENDS Integers, FiniteSets, FiniteSetsExt

CONSTANTS Calls,       \* tool calls that become executions
          Markers,     \* the calls of the marker backend: claimed by no launcher
          Runtimes,    \* gateway/runtime pairs
          RuntimeOf,   \* call -> runtime
          MaxGlobal,   \* max_global
          CpuBudget,   \* cpu_budget_mcpu
          Demands      \* predicted demands

ASSUME AdmissionAssumption ==
    /\ IsFiniteSet(Calls) /\ Markers \subseteq Calls
    /\ RuntimeOf \in [Calls -> Runtimes]
    /\ MaxGlobal \in Nat /\ CpuBudget \in Nat \ {0}
    /\ Demands \subseteq Nat \ {0}

VARIABLES
    lease,       \* call -> its lease: "none", "provisional" or "bound" (to the execution)
    demand,      \* call -> reserved millicores, 0 before the decision
    lapsed,      \* provisional leases whose expires_at has passed
    handed,      \* calls whose plugin has received the decision's lease id
    record,      \* call -> its registry record
    completion,  \* call -> progress of its completion handler
    closed,      \* _closed_runtimes
    finalizing,  \* runtimes whose abort task is running
    targets,     \* executions that the running aborts still have to retire
    finalized,   \* runtimes whose abort has succeeded
    givenBack    \* history: calls whose lease a completion or a teardown released

leases == <<lease, demand, lapsed, handed>>
abort == <<closed, finalizing, targets, finalized>>
vars == <<leases, record, completion, abort, givenBack>>

\* Deadlines: the one-time token, marker_retention_s, completed_retention_s.
Deadlines == {"token", "marker", "completed"}
Records == [known : BOOLEAN, claimed : BOOLEAN, exited : BOOLEAN,
            reported : BOOLEAN, due : SUBSET Deadlines]
NoRecord == [known |-> FALSE, claimed |-> FALSE, exited |-> FALSE,
             reported |-> FALSE, due |-> {}]
Registered == [NoRecord EXCEPT !.known = TRUE]

Held == {c \in Calls : lease[c] # "none"}
Of(r) == {c \in Calls : RuntimeOf[c] = r}
Open(c) == RuntimeOf[c] \notin closed

\* A completion event names its execution and lease, or the execution has been
\* adopted for it, or it belongs to none; then its lease id is dealt with.
Admitted == {"named", "adopted", "unattached"}
Settled == {"marking", "unmarked"}
Processing == Admitted \cup Settled

TypeOK ==
    /\ lease \in [Calls -> {"none", "provisional", "bound"}]
    /\ demand \in [Calls -> 0 .. CpuBudget]
    /\ lapsed \subseteq {c \in Calls : lease[c] = "provisional"}
    /\ handed \subseteq Calls
    /\ record \in [Calls -> Records]
    /\ completion \in [Calls -> {"none", "done", "failed"} \cup Processing]
    /\ closed \subseteq Runtimes /\ finalizing \subseteq closed
    /\ finalized \subseteq closed /\ givenBack \subseteq Calls
    /\ targets \subseteq {c \in Calls : RuntimeOf[c] \in finalizing}

Init ==
    /\ lease = [c \in Calls |-> "none"]
    /\ demand = [c \in Calls |-> 0]
    /\ lapsed = {} /\ handed = {}
    /\ record = [c \in Calls |-> NoRecord]
    /\ completion = [c \in Calls |-> "none"]
    /\ closed = {} /\ finalizing = {} /\ targets = {} /\ finalized = {}
    /\ givenBack = {}

-----------------------------------------------------------------------------
(* Time.                                                                    *)

\* Mutant: a bound lease keeps its provisional deadline.
LapseBound(c) ==
    /\ lease[c] # "none"
    /\ c \notin lapsed
    /\ lapsed' = lapsed \cup {c}
    /\ UNCHANGED <<lease, demand, handed, record, completion, abort, givenBack>>

Lapse(c) ==
    /\ lease[c] = "provisional"
    /\ c \notin lapsed
    /\ lapsed' = lapsed \cup {c}
    /\ UNCHANGED <<lease, demand, handed, record, completion, abort, givenBack>>

\* The deadlines that an operation still looks at.
Pending(c) == (IF record[c].claimed THEN {} ELSE {"token"})
              \cup (IF c \in Markers THEN {"marker"} ELSE {})
              \cup (IF record[c].exited THEN {"completed"} ELSE {})

PassDeadline(c, d) ==
    /\ record[c].known
    /\ d \in Pending(c) \ record[c].due
    /\ record' = [record EXCEPT ![c].due = @ \cup {d}]
    /\ UNCHANGED <<leases, completion, abort, givenBack>>

\* _expire_locked, the first step of acquire, bind_execution and active_count.
Unexpired == [c \in Calls |-> IF c \in lapsed THEN "none" ELSE lease[c]]

Expire ==
    /\ lapsed # {}
    /\ lease' = Unexpired
    /\ lapsed' = {}
    /\ UNCHANGED <<demand, handed, record, completion, abort, givenBack>>

\* _sweep, the first step of every registry operation but mark_completed.
Sweepable(c) ==
    /\ record[c].known
    /\ \/ ~record[c].claimed /\ c \notin Markers /\ "token" \in record[c].due
       \/ ~record[c].claimed /\ c \in Markers /\ "marker" \in record[c].due
       \/ record[c].exited /\ "completed" \in record[c].due

Swept == [c \in Calls |-> IF Sweepable(c) THEN NoRecord ELSE record[c]]

Sweep ==
    /\ record' = Swept
    /\ UNCHANGED <<leases, completion, abort, givenBack>>

-----------------------------------------------------------------------------
(* Decision and registration.                                               *)

\* An oversized job reserves the whole budget: it runs alone.
Reserved(d) == IF d > CpuBudget THEN CpuBudget ELSE d

Live == Held \ lapsed
UsedMcpu == MapThenSumSet(LAMBDA c : demand[c], Live)

\* Mutant: the new lease is not counted.
FitsBefore(d) ==
    /\ Cardinality(Live) < MaxGlobal
    /\ UsedMcpu < CpuBudget

Fits(d) ==
    /\ Cardinality(Live) < MaxGlobal
    /\ UsedMcpu + Reserved(d) <= CpuBudget

\* The poll of acquire that finds room.  The plugin learns the lease id, unless
\* it has given up waiting and run the tool without one, or the handler fails.
Decide(c, d) ==
    /\ demand[c] = 0
    /\ Open(c)
    /\ Fits(d)
    /\ lease' = [Unexpired EXCEPT ![c] = "provisional"]
    /\ lapsed' = {}
    /\ demand' = [demand EXCEPT ![c] = Reserved(d)]
    /\ \/ UNCHANGED handed
       \/ ~record[c].known /\ completion[c] = "none" /\ handed' = handed \cup {c}
    /\ UNCHANGED <<record, completion, abort, givenBack>>

\* The handler failed after acquire: its finally clause gives the lease back.
Withdraw(c) ==
    /\ lease[c] = "provisional"
    /\ c \notin handed
    /\ lease' = [lease EXCEPT ![c] = "none"]
    /\ lapsed' = lapsed \ {c}
    /\ UNCHANGED <<demand, handed, record, completion, abort, givenBack>>

\* bind_execution.
Bind(c) ==
    /\ c \in Live
    /\ lease' = [Unexpired EXCEPT ![c] = "bound"]
    /\ lapsed' = {}

\* register_execution, first or repeated, which the plugin calls before the tool
\* runs: the lease is bound before a new record exists and after an old one has
\* been validated.
Register(c) ==
    /\ completion[c] = "none"
    /\ Open(c)
    /\ ~Swept[c].claimed
    /\ IF c \in handed THEN Bind(c) ELSE UNCHANGED <<lease, lapsed>>
    /\ record' = IF Swept[c].known THEN Swept ELSE [Swept EXCEPT ![c] = Registered]
    /\ UNCHANGED <<demand, handed, completion, abort, givenBack>>

-----------------------------------------------------------------------------
(* The launcher: claim and exit.                                            *)

Claim(c) ==
    /\ c \notin Markers
    /\ Swept[c].known /\ ~Swept[c].claimed
    /\ Open(c)
    /\ "token" \notin Swept[c].due
    /\ record' = [Swept EXCEPT ![c].claimed = TRUE]
    /\ UNCHANGED <<leases, completion, abort, givenBack>>

\* mark_completed, and the same two assignments in exited.
Ended(rec) == [rec EXCEPT !.exited = TRUE, !.due = @ \ {"completed"}]

\* release_execution.
ReleaseExecution(c) ==
    lease' = [lease EXCEPT ![c] = IF @ = "bound" THEN "none" ELSE @]

Exited(c) ==
    /\ Swept[c].known /\ Swept[c].claimed
    /\ Open(c)
    /\ record' = [Swept EXCEPT ![c] = [Ended(@) EXCEPT !.reported = TRUE]]
    /\ ReleaseExecution(c)
    /\ UNCHANGED <<demand, lapsed, handed, completion, abort, givenBack>>

-----------------------------------------------------------------------------
(* The completion hook.                                                     *)

\* begin_runtime_activity; a completion in flight or stored is not run again.
\* The plugin's correlation map forgets a call after 300 s: its event names
\* neither execution nor lease, and only a claimed execution is adopted.
BeginCompletion(c) ==
    /\ completion[c] = "none"
    /\ Open(c)
    /\ record' = Swept
    /\ \E kind \in {"named", IF Swept[c].claimed THEN "adopted" ELSE "unattached"} :
          completion' = [completion EXCEPT ![c] = kind]
    /\ UNCHANGED <<leases, abort, givenBack>>

\* leases.release(event.lease_id)
ReleaseNamedLease(c) ==
    IF completion[c] = "named" /\ c \in handed
    THEN /\ lease' = [lease EXCEPT ![c] = "none"]
         /\ lapsed' = lapsed \ {c}
         /\ givenBack' = givenBack \cup {c}
    ELSE UNCHANGED <<lease, lapsed, givenBack>>

CompletionRelease(c) ==
    /\ completion[c] \in Admitted
    /\ ReleaseNamedLease(c)
    /\ completion' = [completion EXCEPT ![c] =
                        IF @ = "unattached" THEN "unmarked" ELSE "marking"]
    /\ UNCHANGED <<demand, handed, record, abort>>

\* After the monitor, the learning and the trace have been awaited, with or
\* without an error that was recorded: mark_completed.
FinishCompletion(c) ==
    /\ completion[c] \in Settled
    /\ \E result \in {"done", "failed"} : completion' = [completion EXCEPT ![c] = result]
    /\ record' = IF completion[c] = "marking" /\ record[c].known
                 THEN [record EXCEPT ![c] = Ended(@)] ELSE record
    /\ UNCHANGED <<leases, abort, givenBack>>

\* Before learning has started the event may be sent again, afterwards not.
FailCompletion(c) ==
    /\ completion[c] \in Processing
    /\ \E result \in IF completion[c] \in Settled THEN {"none", "failed"} ELSE {"none"} :
          completion' = [completion EXCEPT ![c] = result]
    /\ UNCHANGED <<leases, record, abort, givenBack>>

-----------------------------------------------------------------------------
(* Abort and teardown of a runtime.                                         *)

\* Mutant: abort does not wait for the handlers of its runtime.
NeverBusy(r) == FALSE

\* runtime_requests_active.
Busy(r) == \E c \in Of(r) : completion[c] \in Processing

\* Mutant: the producers are not fenced.
AbortBeginUnfenced(r) ==
    /\ r \notin finalizing \cup finalized
    /\ ~Busy(r)
    /\ record' = Swept
    /\ finalizing' = finalizing \cup {r}
    /\ targets' = targets \cup {c \in Of(r) : Swept[c].known /\ ~Swept[c].reported}
    /\ UNCHANGED <<leases, completion, closed, finalized, givenBack>>

\* An execution with an authenticated exit keeps it; every other is a target.
AbortBegin(r) ==
    /\ r \notin finalizing \cup finalized
    /\ ~Busy(r)
    /\ record' = Swept
    /\ closed' = closed \cup {r}
    /\ finalizing' = finalizing \cup {r}
    /\ targets' = targets \cup {c \in Of(r) : Swept[c].known /\ ~Swept[c].reported}
    /\ UNCHANGED <<leases, completion, finalized, givenBack>>

AbortExecution(c) ==
    /\ c \in targets
    /\ record[c].known
    /\ record' = [record EXCEPT ![c] = IF @.exited THEN @ ELSE Ended(@)]
    /\ ReleaseExecution(c)
    /\ targets' = targets \ {c}
    /\ UNCHANGED <<demand, lapsed, handed, completion, closed, finalizing,
                   finalized, givenBack>>

\* executions.abort raises KeyError for a record that has been swept since:
\* the task fails and the caller may abort again.
AbortBreaks(c) ==
    /\ c \in targets
    /\ ~record[c].known
    /\ finalizing' = finalizing \ {RuntimeOf[c]}
    /\ targets' = targets \ Of(RuntimeOf[c])
    /\ UNCHANGED <<leases, record, completion, closed, finalized, givenBack>>

\* With an observation error the caller may abort again, too.
AbortFinish(r) ==
    /\ r \in finalizing
    /\ targets \cap Of(r) = {}
    /\ finalizing' = finalizing \ {r}
    /\ finalized' \in {finalized, finalized \cup {r}}
    /\ UNCHANGED <<leases, record, completion, closed, targets, givenBack>>

\* DELETE .../sandbox-scope: release_runtime.
Teardown(r) ==
    /\ lease' = [c \in Calls |-> IF c \in Of(r) THEN "none" ELSE lease[c]]
    /\ lapsed' = lapsed \ Of(r)
    /\ givenBack' = givenBack \cup (Of(r) \cap Held)
    /\ UNCHANGED <<demand, handed, record, completion, abort>>

Time == Expire \/ Sweep \/ \E c \in Calls : Lapse(c) \/ \E d \in Deadlines : PassDeadline(c, d)
Handler(c) == \/ Withdraw(c) \/ Register(c) \/ Claim(c) \/ Exited(c)
              \/ BeginCompletion(c) \/ CompletionRelease(c)
              \/ FinishCompletion(c) \/ FailCompletion(c)
              \/ \E d \in Demands : Decide(c, d)
Abort == \/ \E c \in Calls : AbortExecution(c) \/ AbortBreaks(c)
         \/ \E r \in Runtimes : AbortBegin(r) \/ AbortFinish(r)

Next == Time \/ Abort \/ (\E c \in Calls : Handler(c)) \/ (\E r \in Runtimes : Teardown(r))

Spec == Init /\ [][Next]_vars

-----------------------------------------------------------------------------
(* Properties.                                                              *)

\* Whatever expires, is given back or is admitted in between, the leases that
\* count never exceed the slots or the CPU budget, an oversized one included.
WithinSlots == Cardinality(Held) <= MaxGlobal
WithinBudget ==
    /\ WithinSlots
    /\ MapThenSumSet(LAMBDA c : demand[c], Held) <= CpuBudget

\* An execution that a launcher has claimed and that has not ended keeps its
\* lease however long it runs: no deadline, retry of its registration, failure
\* or abort of another runtime takes it away ("would silently over-admit").
Running(c) == record[c].known /\ record[c].claimed /\ ~record[c].exited
RunningHoldsItsLease ==
    \A c \in handed \ givenBack : Running(c) => lease[c] = "bound"

\* Once a runtime is fenced, none of its executions appears, is claimed or gets
\* exit evidence, and no completion of it is processed ("Late reports must not
\* turn an aborted measurement into a successful completion").
ClosedRuntimeIsFinal ==
    [][\A c \in Calls : ~Open(c) =>
          /\ completion'[c] = completion[c]
          /\ record'[c].known => /\ record[c].known
                                 /\ record'[c].claimed = record[c].claimed
                                 /\ record'[c].reported = record[c].reported]_vars

\* A successful abort leaves no execution of its runtime that the registry
\* knows running, or in possession of a lease.
FinalizedIsRetired ==
    \A c \in Calls : RuntimeOf[c] \in finalized /\ record[c].known =>
        record[c].exited /\ lease[c] # "bound"

=============================================================================
