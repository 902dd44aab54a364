--------------------------- MODULE SharedTelemetry ---------------------------
(***************************************************************************)
(* One eBPF attachment shared by all collectors of the process              *)
(* (tool_resource/telemetry.py) and the observer that runs one collector     *)
(* around a command (tool_resource/sdk.py).                                  *)
(*                                                                           *)
(* The kernel reports an event if its cgroup is in the filter map; a poller  *)
(* thread takes events from the ring and appends them to the buffers of the  *)
(* leases whose scope owns them, reading the routes without a lock.  Leases  *)
(* count references per cgroup, so the filter entry goes with the last one.  *)
(* A scope is a set of cgroups; pid namespaces are treated alike.            *)
(***************************************************************************)
EXTENDS Naturals, Sequences, FiniteSets, SequencesExt

CONSTANTS Runs,        \* observed commands, one collector each
          Groups,      \* cgroups
          ScopeOf,       \* run -> groups found at attach
          Found,       \* run -> groups that only its events reveal
          RingSize,    \* events the ring holds
          MaxEvents,   \* bound
          MaxSourceFaults    \* bound: filter writes and steps that raise

TelemetryAssumption ==
    \* acquire refuses a scope without any identity.
    /\ ScopeOf \in [Runs -> (SUBSET Groups) \ {{}}] /\ Found \in [Runs -> SUBSET Groups]
    /\ RingSize \in Nat /\ MaxEvents \in Nat /\ MaxSourceFaults \in Nat

VARIABLES
    refs,       \* _cgroup_refs
    allowed,    \* the kernel's allowed_cgroups
    lease,      \* run -> groups of its lease, {} without one
    routes,     \* _routes: group -> leases, as of the last rebuild
    ring,       \* events reported and not polled
    losses,     \* ringbuf_reserve_failures
    reader,     \* the event in the poller's hand and the buffers still to get it
    pollError,  \* poll_error
    buffer,     \* run -> events of its lease's buffer
    state,      \* run -> state of its collector, "new" before attach
    call,       \* run -> progress of its command
    lossAtStart,\* run -> losses when its command began
    summary,    \* run -> quality of the call summary
    learned,    \* runs whose observations reached the knowledge base
    due,        \* history: run -> events of its command
    got,        \* history: run -> events its summary was made of
    blind,      \* history: runs begun after the poller had died
    late,       \* history: run -> events of its command still on their way when it sliced
    overdrawn,  \* history: groups of which a failed acquire took a reference of another
    dark,       \* history: events that the filter kept back in an overdrawn group
    events, sourceFaults

source == <<refs, allowed, lease, routes>>
delivery == <<ring, losses, reader, pollError>>
collecting == <<state, call, lossAtStart, summary, learned>>
history == <<due, got, blind, late, overdrawn, dark>>
sourceVars == <<source, delivery, buffer, collecting, history, events, sourceFaults>>

Idle == [event |-> 0, to |-> {}]

SourceInit ==
    /\ refs = [g \in Groups |-> 0] /\ allowed = {}
    /\ lease = [r \in Runs |-> {}] /\ routes = [g \in Groups |-> {}]
    /\ ring = <<>> /\ losses = 0 /\ reader = Idle /\ pollError = FALSE
    /\ buffer = [r \in Runs |-> {}]
    /\ state = [r \in Runs |-> "new"] /\ call = [r \in Runs |-> "none"]
    /\ lossAtStart = [r \in Runs |-> 0] /\ summary = [r \in Runs |-> "none"]
    /\ learned = {}
    /\ due = [r \in Runs |-> {}] /\ got = [r \in Runs |-> {}] /\ blind = {}
    /\ late = [r \in Runs |-> {}] /\ overdrawn = {} /\ dark = {}
    /\ events = 0 /\ sourceFaults = 0

SourceFault == sourceFaults < MaxSourceFaults /\ sourceFaults' = sourceFaults + 1

SourceTypeOK ==
    /\ refs \in [Groups -> Nat] /\ allowed \subseteq Groups
    /\ lease \in [Runs -> SUBSET Groups] /\ routes \in [Groups -> SUBSET Runs]
    /\ Len(ring) <= RingSize /\ losses \in Nat /\ pollError \in BOOLEAN
    /\ state \in [Runs -> {"new", "active", "disabled", "closed"}]
    /\ call \in [Runs -> {"none", "running", "finishing", "finished", "done"}]
    /\ summary \in [Runs -> {"none", "ok", "invalid", "unavailable"}]

-----------------------------------------------------------------------------
(* _SharedBpfSource: acquire, extend and release under _scope_lock.          *)

RoutesOf(leases) == [g \in Groups |-> {r \in Runs : g \in leases[r]}]

Dropped(groups) == {g \in groups : refs[g] <= 1}

Reference(groups) ==
    /\ refs' = [g \in Groups |-> refs[g] + (IF g \in groups THEN 1 ELSE 0)]
    /\ allowed' = allowed \cup groups

Enter(r, groups) ==
    /\ Reference(groups)
    /\ lease' = [lease EXCEPT ![r] = @ \cup groups]
    /\ routes' = RoutesOf(lease')

Fewer(count) == IF count <= 1 THEN 0 ELSE count - 1

Unreference(groups, drop) ==
    /\ refs' = [g \in Groups |-> IF g \in groups THEN Fewer(refs[g]) ELSE refs[g]]
    /\ allowed' = allowed \ drop

\* A filter write raises after some groups were counted: the handler takes one
\* reference from every group, also from those it had not reached, and deletes
\* the entries it had added.
Rollback(r) ==
    \E bad \in {g \in ScopeOf[r] : refs[g] = 0} :
    \E counted \in SUBSET (ScopeOf[r] \ {bad}) :
        LET before == [g \in Groups |-> refs[g] + (IF g \in counted THEN 1 ELSE 0)] IN
        /\ refs' = [g \in Groups |-> IF g \in ScopeOf[r] THEN Fewer(before[g]) ELSE before[g]]
        /\ allowed' = allowed \ {g \in counted : refs[g] = 0}
        /\ overdrawn' = overdrawn \cup {g \in ScopeOf[r] \ counted : refs[g] > 0}
        /\ UNCHANGED <<lease, routes>>

\* The counters could not be read after the lease was acquired: it is released.
Withdraw(r) ==
    /\ allowed' = allowed \ {g \in ScopeOf[r] : refs[g] = 0}
    /\ routes' = RoutesOf(lease)
    /\ UNCHANGED <<refs, lease, overdrawn>>

ReleaseLease(r) ==
    /\ Unreference(lease[r], Dropped(lease[r]))
    /\ lease' = [lease EXCEPT ![r] = {}]
    /\ routes' = IF lease[r] = {} THEN routes ELSE RoutesOf(lease')
    /\ buffer' = [buffer EXCEPT ![r] = {}]

-----------------------------------------------------------------------------
(* The kernel and the poller thread.                                        *)

\* A process of the cgroup runs: the event belongs to every command that is
\* running there.
Emit(g) ==
    /\ events < MaxEvents /\ events' = events + 1
    /\ due' = [r \in Runs |-> IF call[r] = "running" /\ g \in ScopeOf[r]
                              THEN due[r] \cup {events'} ELSE due[r]]
    /\ IF g \notin allowed THEN UNCHANGED <<ring, losses>>
       ELSE IF Len(ring) < RingSize
            THEN ring' = Append(ring, [event |-> events', group |-> g]) /\ UNCHANGED losses
            ELSE losses' = losses + 1 /\ UNCHANGED ring
    /\ dark' = IF g \in overdrawn \ allowed THEN dark \cup {events'} ELSE dark
    /\ UNCHANGED <<source, reader, pollError, buffer, collecting, got, blind, late, overdrawn,
                   sourceFaults>>

\* route_event reads the routes ...
Poll ==
    /\ ~pollError /\ reader.to = {} /\ ring # <<>>
    /\ reader' = [event |-> Head(ring).event, to |-> routes[Head(ring).group]]
    /\ ring' = Tail(ring)
    /\ UNCHANGED <<source, losses, pollError, buffer, collecting, history, events, sourceFaults>>

\* Mutant: a closed buffer still takes events.
OpenAlways(r) == TRUE
Open(r) == lease[r] # {}

\* ... and appends to one buffer after the other, each unless it was closed.
Deliver(r) ==
    /\ r \in reader.to
    /\ reader' = [reader EXCEPT !.to = @ \ {r}]
    /\ buffer' = IF Open(r) THEN [buffer EXCEPT ![r] = @ \cup {reader.event}] ELSE buffer
    /\ UNCHANGED <<source, ring, losses, pollError, collecting, history, events, sourceFaults>>

PollerDies ==
    /\ ~pollError /\ reader.to = {} /\ SourceFault
    /\ pollError' = TRUE
    /\ UNCHANGED <<source, ring, losses, reader, buffer, collecting, history, events>>

-----------------------------------------------------------------------------
(* One collector around one command.                                        *)

\* attach: a collector that cannot be armed is replaced by an unavailable one.
Attach(r) ==
    /\ state[r] = "new"
    /\ \/ /\ Enter(r, ScopeOf[r])
          /\ state' = [state EXCEPT ![r] = "active"]
          /\ UNCHANGED <<overdrawn, sourceFaults>>
       \/ /\ SourceFault /\ (Rollback(r) \/ Withdraw(r))
          /\ state' = [state EXCEPT ![r] = "disabled"]
    /\ UNCHANGED <<delivery, buffer, call, lossAtStart, summary, learned, due, got, blind, late,
                   dark, events>>

\* begin_tool_call takes the counters as baseline; a dead poller disables.
Begin(r) ==
    /\ state[r] \in {"active", "disabled"} /\ call[r] = "none"
    /\ call' = [call EXCEPT ![r] = "running"]
    /\ state' = [state EXCEPT ![r] = IF pollError THEN "disabled" ELSE @]
    /\ lossAtStart' = [lossAtStart EXCEPT ![r] = losses]
    /\ blind' = IF pollError THEN blind \cup {r} ELSE blind
    /\ UNCHANGED <<source, delivery, buffer, summary, learned, due, got, late, overdrawn, dark,
                   events, sourceFaults>>

\* finish_tool_call stamps the end and checks the poller ...
FinishBegin(r) ==
    /\ call[r] = "running"
    /\ IF state[r] = "active" /\ ~pollError
       THEN /\ call' = [call EXCEPT ![r] = "finishing"]
            /\ UNCHANGED <<state, summary>>
       ELSE /\ call' = [call EXCEPT ![r] = "finished"]
            /\ state' = [state EXCEPT ![r] = "disabled"]
            /\ summary' = [summary EXCEPT ![r] = "unavailable"]
    /\ UNCHANGED <<source, delivery, buffer, lossAtStart, learned, history, events, sourceFaults>>

\* ... sleeps 30 ms to "let the poller drain"; what is still on its way is late.
OnTheWay(r) == {e \in due[r] : \/ \E i \in DOMAIN ring : ring[i].event = e
                               \/ r \in reader.to /\ reader.event = e}

\* Mutant: lost events do not spoil a summary.
QualityForgiving(r) == {"ok", "invalid"}

\* _summarize_call: any loss invalidates; so do gaps in attribution or mapping.
Quality(r) == IF losses > lossAtStart[r] THEN {"invalid"} ELSE {"ok", "invalid"}

\* Cgroups of the container that the events reveal.
NewGroups(r) == IF buffer[r] = {} THEN {} ELSE Found[r] \ lease[r]

\* ... and slices the buffer.  New cgroups among the events extend the lease.
FinishSlice(r) ==
    /\ call[r] = "finishing"
    /\ got' = [got EXCEPT ![r] = buffer[r]]
    /\ late' = [late EXCEPT ![r] = OnTheWay(r)]
    /\ Enter(r, NewGroups(r))
    /\ \E quality \in Quality(r) : summary' = [summary EXCEPT ![r] = quality]
    /\ call' = [call EXCEPT ![r] = "finished"]
    /\ UNCHANGED <<delivery, buffer, state, lossAtStart, learned, due, blind, overdrawn, dark,
                   events, sourceFaults>>

\* What extend_cgroups has counted when the filter write of a further group raises;
\* nothing when a counter could not be read.
Extended(r) ==
    {part \in SUBSET NewGroups(r) : part = {} \/ \E bad \in NewGroups(r) \ part : refs[bad] = 0}

\* Mutant: the lease learns of its new groups when it has them all.
HalfwayUnleased(r, part) == Reference(part) /\ UNCHANGED <<lease, routes>>
\* The groups before the failure stay in the lease; the routes are not rebuilt.
Halfway(r, part) ==
    /\ Reference(part)
    /\ lease' = [lease EXCEPT ![r] = @ \cup part]
    /\ UNCHANGED routes

\* A counter or the extension raised.
FinishFails(r) ==
    /\ call[r] = "finishing" /\ SourceFault
    /\ \E part \in Extended(r) : Halfway(r, part)
    /\ summary' = [summary EXCEPT ![r] = "unavailable"]
    /\ state' = [state EXCEPT ![r] = "disabled"]
    /\ call' = [call EXCEPT ![r] = "finished"]
    /\ UNCHANGED <<delivery, buffer, lossAtStart, learned, history, events>>

Closes(r) == ReleaseLease(r)

\* finalize releases the lease and writes the artifact; finish_command then
\* learns the clauses of its one call, unless writing or reading it failed.
\* The quality of the call is not asked; an unavailable one has no clauses.
Finalize(r) ==
    /\ call[r] = "finished"
    /\ Closes(r)
    /\ state' = [state EXCEPT ![r] = "closed"]
    /\ call' = [call EXCEPT ![r] = "done"]
    /\ \/ learned' = (IF summary[r] # "unavailable" THEN learned \cup {r} ELSE learned)
          /\ UNCHANGED sourceFaults
       \/ SourceFault /\ UNCHANGED learned
    /\ UNCHANGED <<delivery, lossAtStart, summary, history, events>>

SourceNext == \/ \E g \in Groups : Emit(g)
        \/ Poll \/ PollerDies
        \/ \E r \in Runs : \/ Deliver(r) \/ Attach(r) \/ Begin(r) \/ FinishBegin(r)
                           \/ FinishSlice(r) \/ FinishFails(r) \/ Finalize(r)

SourceSpec == SourceInit /\ [][SourceNext]_sourceVars

\* The poller is a live thread; a started command is finished by its owner.
Finishing(r) == (FinishBegin(r) \/ FinishSlice(r) \/ Finalize(r)) /\ sourceFaults' = sourceFaults
SourceFairSpec == /\ SourceSpec /\ WF_sourceVars(Poll)
            /\ \A r \in Runs : WF_sourceVars(Deliver(r)) /\ WF_sourceVars(Finishing(r))

-----------------------------------------------------------------------------
(* Properties.                                                              *)

\* A summary of quality "ok" was made of every event of its command, whatever
\* other collectors of the same cgroups attached, failed, released or extended
\* meanwhile, and no command that begins after the poller's death is "ok".  Two gaps
\* are not noticed by the code: events that were still on their way when the 30 ms
\* were over, and those of a cgroup whose references were overdrawn.
OkIsComplete ==
    \A r \in Runs : summary[r] = "ok" =>
        due[r] \subseteq got[r] \cup late[r] \cup dark /\ r \notin blind

\* The kernel filter holds what the leases hold, no more: collection of a cgroup
\* ends with its last lease, also of one that was extended half-way; the routes
\* lead to leases, and a released buffer stays empty.
FilterIsLeased ==
    /\ allowed \subseteq UNION {lease[r] : r \in Runs}
    /\ \A g \in Groups : /\ refs[g] <= Cardinality({r \in Runs : g \in lease[r]})
                         /\ \A r \in routes[g] : g \in lease[r]
    /\ \A r \in Runs : lease[r] = {} => buffer[r] = {}

CountedIsAllowed == \A r \in Runs : lease[r] \ overdrawn \subseteq allowed

FilterMatchesLeases == FilterIsLeased /\ CountedIsAllowed

\* Every command that was begun ends with a summary and without a lease.
CommandsEnd == \A r \in Runs : call[r] = "running" ~> (call[r] = "done" /\ lease[r] = {})
=============================================================================
