------------------------------ MODULE PmuCollector ------------------------------
(***************************************************************************)
(* The hardware counters of executions (monitoring/pmu.py and its calls in     *)
(* api/app.py). A group of perf descriptors is opened on the execution's root   *)
(* while it waits behind its exec gate, starts with the payload's image and is   *)
(* read once, by whichever report comes first: the launcher's exit, a            *)
(* completion, an abort, a shutdown, or a later execution that needs the place   *)
(* of one whose root has gone without a report. Every method runs under the      *)
(* collector's lock, so each is one step. The first answer stays, as long as      *)
(* the bounded memory of answers keeps it.                                      *)
(***************************************************************************)
EXTENDS Naturals, FiniteSets, SequencesExt

CONSTANTS Execs,
          Events,      \* the counters of a group (EVENT_SPECS)
          Leader,      \* the one that the others are scheduled with: cycles
          MaxActive,
          MaxFds,
          Kept,        \* remembered profiles: max(256, 8 * MaxActive)
          MaxFaults    \* bound: failed opens and reads, lost and late reports

LeaderAssumption == Leader \in Events
BudgetAssumption ==
    /\ {MaxActive, MaxFds, Kept} \subseteq Nat \ {0}
    /\ MaxFds >= Cardinality(Events)

VARIABLES root,        \* the execution's process: "gated", "running" or "gone"
          armed,       \* /started has been answered, and with it begin
          active,      \* _active: the group of each execution, in order of opening
          completed,   \* _completed, oldest first
          fds,         \* the descriptors that the kernel holds open
          told,        \* the completions that reported a timeout
          closed,
          faults

vars == <<root, armed, active, completed, fds, told, closed, faults>>

(* A group: its open events, whether it counts the kernel, and whether it was    *)
(* opened behind the gate. An answer: the same and how the group ended.          *)
Group(events, kernel, gated) == [events |-> events, kernel |-> kernel, gated |-> gated]
Owners == {g[1] : g \in ToSet(active)}
GroupOf(e) == (CHOOSE g \in ToSet(active) : g[1] = e)[2]
Without(gone) == SelectSeq(active, LAMBDA g : g[1] \notin gone)
Answered == {p.exec : p \in ToSet(completed)}

Init ==
    /\ root = [e \in Execs |-> "gated"]
    /\ armed = {} /\ told = {} /\ fds = {}
    /\ active = <<>> /\ completed = <<>>
    /\ closed = FALSE
    /\ faults = 0

Fails == faults < MaxFaults /\ faults' = faults + 1
Quiet == UNCHANGED faults

(* _finish_group: every event is read, the group is closed, and the profile is   *)
(* reliable when all of them ran all the time, in the kernel too, up to an end    *)
(* that is known.                                                               *)
Ends == {"execution_exited", "tool_timeout"}
ReliableByAny(g, clean, reason) ==
    clean /\ g.events = Events /\ g.kernel /\ reason # "aborted"
Reliable(g, clean, reason) ==
    clean /\ g.events = Events /\ g.kernel /\ reason \in Ends

Profile(e, g, clean, reason) ==
    [exec |-> e, reason |-> reason, reliable |-> Reliable(g, clean, reason),
     gated |-> g.gated, gone |-> root[e] = "gone"]

Unavailable(e) ==
    [exec |-> e, reason |-> "unavailable", reliable |-> FALSE,
     gated |-> FALSE, gone |-> root[e] = "gone"]

(* _remember_completed_locked.                                                *)
Remember(seq, p) ==
    LET longer == Append(SelectSeq(seq, LAMBDA q : q.exec # p.exec), p)
    IN  IF Len(longer) > Kept THEN SubSeq(longer, Len(longer) - Kept + 1, Len(longer))
        ELSE longer

Descriptors(e, g) == {<<e, g.kernel, ev>> : ev \in g.events}

(* finish, of an execution that has no answer yet. A read may fail or find that  *)
(* the counters were multiplexed.                                              *)
FinishAs(e, reason) ==
    IF e \in Answered
    THEN UNCHANGED <<active, completed, fds>> /\ Quiet
    ELSE IF e \notin Owners
    THEN completed' = Remember(completed, Unavailable(e)) /\ UNCHANGED <<active, fds>> /\ Quiet
    ELSE /\ \E clean \in BOOLEAN :
              /\ IF clean THEN Quiet ELSE Fails
              /\ completed' = Remember(completed, Profile(e, GroupOf(e), clean, reason))
         /\ active' = Without({e})
         /\ fds' = fds \ Descriptors(e, GroupOf(e))

(* _reap_exited_locked, only when the place is needed.                         *)
Full(groups) == Len(groups) >= MaxActive \/ (Len(groups) + 1) * Cardinality(Events) > MaxFds
Reaped == IF Full(active) THEN {e \in Owners : root[e] = "gone"} ELSE {}

ReapedProfiles(gone) ==
    LET groups == SelectSeq(active, LAMBDA g : g[1] \in gone)
    IN  [n \in DOMAIN groups |->
            Profile(groups[n][1], groups[n][2], TRUE, "root_exited_before_callback")]

(* _open_group. Without its leader a group has nothing; any other event may be   *)
(* missing. A refusal for lack of permission closes the group, and a second one  *)
(* is opened that leaves the kernel out.                                        *)
Openable == {{}} \cup {ev \in SUBSET Events : Leader \in ev}
Opened(e, first, second, denied) ==
    IF denied THEN Descriptors(e, second) ELSE Descriptors(e, first)

(* begin: called by /started while the root is behind its gate.                 *)
Begin(e) ==
    /\ root[e] = "gated" /\ ~closed
    /\ armed' = armed \cup {e}
    /\ IF e \in Owners \cup Answered THEN UNCHANGED <<active, completed, fds>> /\ Quiet
       ELSE LET gone == Reaped
                freed == UNION {Descriptors(x, GroupOf(x)) : x \in gone}
                known == FoldLeft(Remember, completed, ReapedProfiles(gone))
                left == Without(gone)
            IN  IF Full(left)
                THEN /\ completed' = Remember(known, Unavailable(e))
                     /\ active' = left /\ fds' = fds \ freed /\ Quiet
                ELSE \E one, two \in Openable, denied \in BOOLEAN :
                        LET first == Group(one, TRUE, TRUE)
                            second == Group(two, FALSE, TRUE)
                            group == IF denied THEN second ELSE first
                        IN  /\ denied => one # Events
                            /\ ~denied => two = {}
                            /\ IF one = Events THEN Quiet ELSE Fails
                            /\ fds' = (fds \ freed) \cup Opened(e, first, second, denied)
                            /\ IF group.events = {}
                               THEN completed' = Remember(known, Unavailable(e)) /\ active' = left
                               ELSE completed' = known /\ active' = Append(left, <<e, group>>)
    /\ UNCHANGED <<root, told, closed>>

(* /started finds no process of the host that it can trust, and opens nothing.   *)
BeginUnresolved(e) ==
    /\ root[e] = "gated" /\ e \notin armed /\ ~closed
    /\ Fails
    /\ armed' = armed \cup {e}
    /\ UNCHANGED <<root, active, completed, fds, told, closed>>

(* The payload: released by the answer to /started, it runs and exits.           *)
Release(e) ==
    /\ root[e] = "gated" /\ e \in armed
    /\ root' = [root EXCEPT ![e] = "running"]
    /\ UNCHANGED <<armed, active, completed, fds, told, closed, faults>>
Exit(e) ==
    /\ root[e] = "running"
    /\ root' = [root EXCEPT ![e] = "gone"]
    /\ UNCHANGED <<armed, active, completed, fds, told, closed, faults>>

(* finish: the launcher's report, which may be repeated, late or lost.           *)
Exited(e) ==
    /\ root[e] = "gone" /\ ~closed
    /\ FinishAs(e, "execution_exited")
    /\ UNCHANGED <<root, armed, told, closed>>

(* The completion of a command that timed out ends the measurement whether its   *)
(* process has gone or not.                                                     *)
TimedOut(e) ==
    /\ e \in armed /\ root[e] # "gated" /\ ~closed
    /\ told' = told \cup {e}
    /\ FinishAs(e, "tool_timeout")
    /\ UNCHANGED <<root, armed, closed>>

(* Any other completion that does not say the command still runs. It asks for an  *)
(* answer (take) and makes one if there is none: the launcher's exit may be lost.  *)
Completed(e) ==
    /\ e \in armed /\ root[e] # "gated" /\ ~closed
    /\ FinishAs(e, "completion_fallback")
    /\ UNCHANGED <<root, armed, told, closed>>

Abort(e) ==
    /\ ~closed /\ e \in armed
    /\ FinishAs(e, "aborted")
    /\ UNCHANGED <<root, armed, told, closed>>

(* close: every group is aborted.                                              *)
Close ==
    /\ ~closed /\ closed' = TRUE
    /\ active' = <<>>
    /\ fds' = fds \ UNION {Descriptors(e, GroupOf(e)) : e \in Owners}
    /\ completed' = FoldLeft(Remember, completed,
           [n \in DOMAIN active |-> Profile(active[n][1], active[n][2], TRUE, "aborted")])
    /\ UNCHANGED <<root, armed, told, faults>>

Next ==
    \/ \E e \in Execs :
          \/ Begin(e) \/ BeginUnresolved(e) \/ Release(e) \/ Exit(e)
          \/ Exited(e) \/ TimedOut(e) \/ Completed(e) \/ Abort(e)
    \/ Close

Spec == Init /\ [][Next]_vars

(***************************************************************************)
(* Properties.                                                               *)
(***************************************************************************)
\* The counts that are learned from are those of a whole execution: the group
\* was opened before the payload's first instruction and read after its root
\* had gone, or at the time-out that bounds its observation; whichever of the
\* exit, the completion, an abort and the reaping of a silent execution came
\* first, and however often they are repeated.
ExecutionsAreWhole ==
    \A p \in ToSet(completed) : p.reliable => p.gated /\ (p.gone \/ p.exec \in told)

\* Every descriptor belongs to a group that will be read, and no more of them
\* are open than the budget allows.
NoDescriptorLeaks ==
    /\ fds = UNION {Descriptors(e, GroupOf(e)) : e \in Owners}
    /\ Cardinality(fds) <= MaxFds /\ Len(active) <= MaxActive

CountersAreWhole == ExecutionsAreWhole /\ NoDescriptorLeaks
=============================================================================
