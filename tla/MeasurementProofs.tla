------------------------ MODULE MeasurementProofs ------------------------
(***************************************************************************)
(* What measures a command, for any number of commands, calls and execs,      *)
(* cgroups, any ring and any number of faults: the launcher, the shared BPF     *)
(* source, the observer of docker execs, the scope of a managed execution, the   *)
(* rule generator that keeps off, and the memory timelines.                    *)
(***************************************************************************)
EXTENDS MCMeasurement, FiniteSetTheorems, SequenceTheorems, TLAPS

-----------------------------------------------------------------------------
(* The launcher: calls that raise, replies that are lost and signals at any     *)
(* step.                                                                        *)

\* Where the launcher is before a gate can have opened, and after the last one
\* can open.
Before == {"claim", "unobserved", "prepare", "spawn", "join", "scope", "probe",
           "start2", "open", "start", "release", "abandon"}
After == {"report", "done", "killed"}

LauncherTypeOK ==
    /\ TypeOK
    /\ pc \in Before \cup {"drop", "arm", "wait"} \cup After

\* An unanswered report is tried again a bounded number of times.
ReportsCounted ==
    /\ pc \notin After => reports = 0
    /\ pc = "report" => reports <= (IF mode = "forkexec" THEN 2 ELSE 1)

\* Only a released child has run, and it never returns to its gate.
RanWasReleased ==
    \A c \in ran : gate[c] = "open" /\ child[c] \in {"running", "dying", "gone"}

\* One gate opens, and it is that of the child which is waited for.
OneGate ==
    /\ pc \in Before \ {"abandon"} => \A c \in Children : gate[c] = "shut"
    /\ pc = "abandon" => \A c \in Children : gate[c] # "open"
    /\ pc = "drop" => gate["first"] = "shut" /\ gate["second"] = "open"
    /\ pc \in Before \cup {"drop", "arm"} => target = "first"
    /\ ~(gate["first"] = "open" /\ gate["second"] = "open")
    /\ pc \in {"arm", "wait"} => gate[target] = "open"

\* A gate opens behind the stored start.
OpensStarted ==
    /\ pc = "unobserved" => mode = "unobserved"
    /\ (pc \in {"release", "open"} \/ \E c \in Children : gate[c] = "open") =>
          (Observed /\ ~FailOpen => started)

\* An exit is reported when the waited child is gone.
ReportedIsGone ==
    /\ claim = "exited" => pc \in After
    /\ pc = "report" \/ claim = "exited" =>
          \A c \in Children : gate[c] = "open" => child[c] = "gone"

\* The inductive invariant.
LauncherInv ==
    /\ LauncherTypeOK
    /\ ReportsCounted
    /\ RanWasReleased
    /\ OneGate
    /\ OpensStarted
    /\ ReportedIsGone

-----------------------------------------------------------------------------

LEMMA InitLauncherInv == Init => LauncherInv
<1> SUFFICES ASSUME Init PROVE LauncherInv
  OBVIOUS
<1>0. cgroup \in BOOLEAN
  BY DEF Init
<1>1. LauncherTypeOK
  BY <1>0, LauncherAssumption DEF Init, LauncherTypeOK, TypeOK, Children, Before, After
<1>2. ReportsCounted /\ RanWasReleased /\ OneGate /\ ReportedIsGone
  BY DEF Init, ReportsCounted, RanWasReleased, OneGate, ReportedIsGone, Children, Before, After
<1>3. OpensStarted
  BY DEF Init, OpensStarted, Children
<1> QED
  BY <1>1, <1>2, <1>3 DEF LauncherInv

LEMMA NextLauncherInv == LauncherInv /\ [Next]_vars => LauncherInv'
<1> SUFFICES ASSUME LauncherInv, [Next]_vars PROVE LauncherInv'
  OBVIOUS
<1> USE LauncherAssumption
    DEF LauncherInv, LauncherTypeOK, TypeOK, ReportsCounted, RanWasReleased, OneGate,
        OpensStarted, ReportedIsGone, Children, Before, After, Observed, FailOpen, Fault, Ended,
        launcher
<1>1. CASE Claim
  BY <1>1 DEF Claim
<1>2. CASE Unobserved
  BY <1>2 DEF Unobserved
<1>3. CASE Prepare
  BY <1>3 DEF Prepare
<1>4. CASE Spawn
  BY <1>4 DEF Spawn
<1>5. CASE Join
  BY <1>5 DEF Join
<1>6. CASE Scope
  BY <1>6 DEF Scope
<1>7. CASE Probe
  BY <1>7 DEF Probe, Terminated, Resumed
<1>8. CASE StartSecond
  <2>1. LauncherTypeOK'
    BY <1>8 DEF StartSecond, Start, Acknowledged, Terminated, Resumed
  <2>2. ReportsCounted'
    BY <1>8 DEF StartSecond, Start, Acknowledged, Terminated, Resumed
  <2>3. RanWasReleased'
    BY <1>8 DEF StartSecond, Start, Acknowledged, Terminated, Resumed
  <2>4. OneGate'
    BY <1>8 DEF StartSecond, Start, Acknowledged, Terminated, Resumed
  <2>5. OpensStarted'
    BY <1>8 DEF StartSecond, Start, Acknowledged, Terminated, Resumed
  <2>6. ReportedIsGone'
    BY <1>8 DEF StartSecond, Start, Acknowledged, Terminated, Resumed
  <2> QED
    BY <2>1, <2>2, <2>3, <2>4, <2>5, <2>6
<1>9. CASE OpenSecond
  <2>1. LauncherTypeOK'
    BY <1>9 DEF OpenSecond, Terminated, Resumed
  <2>2. ReportsCounted'
    BY <1>9 DEF OpenSecond, Terminated, Resumed
  <2>3. RanWasReleased'
    BY <1>9 DEF OpenSecond, Terminated, Resumed
  <2>4. OneGate'
    BY <1>9 DEF OpenSecond, Terminated, Resumed
  <2>5. OpensStarted'
    BY <1>9 DEF OpenSecond, Terminated, Resumed
  <2>6. ReportedIsGone'
    BY <1>9 DEF OpenSecond, Terminated, Resumed
  <2> QED
    BY <2>1, <2>2, <2>3, <2>4, <2>5, <2>6
<1>10. CASE DropFirst
  BY <1>10 DEF DropFirst, Replaced, Terminated
<1>11. CASE StartFirst
  <2>1. LauncherTypeOK'
    BY <1>11 DEF StartFirst, Start, Acknowledged
  <2>2. ReportsCounted'
    BY <1>11 DEF StartFirst, Start, Acknowledged
  <2>3. RanWasReleased'
    BY <1>11 DEF StartFirst, Start, Acknowledged
  <2>4. OneGate'
    BY <1>11 DEF StartFirst, Start, Acknowledged
  <2>5. OpensStarted'
    BY <1>11 DEF StartFirst, Start, Acknowledged
  <2>6. ReportedIsGone'
    BY <1>11 DEF StartFirst, Start, Acknowledged
  <2> QED
    BY <2>1, <2>2, <2>3, <2>4, <2>5, <2>6
<1>12. CASE Release
  BY <1>12 DEF Release
<1>13. CASE Arm
  BY <1>13 DEF Arm
<1>14. CASE Abandon
  BY <1>14 DEF Abandon, Terminated, Confirmed
<1>15. CASE Wait
  BY <1>15 DEF Wait, Terminated, Confirmed
<1>16. CASE Report
  BY <1>16 DEF Report, Attempts
<1>17. CASE Cancel
  BY <1>17 DEF Cancel
<1>18. ASSUME NEW c \in Children, Exec(c) PROVE LauncherInv'
  BY <1>18 DEF Exec, Passes
<1>19. ASSUME NEW c \in Children, Leave(c) PROVE LauncherInv'
  BY <1>19 DEF Leave, Passes
<1>20. ASSUME NEW c \in Children, End(c) PROVE LauncherInv'
  BY <1>20 DEF End
<1>21. CASE UNCHANGED vars
  BY <1>21 DEF vars
<1> QED
  BY <1>1, <1>2, <1>3, <1>4, <1>5, <1>6, <1>7, <1>8, <1>9, <1>10, <1>11, <1>12, <1>13, <1>14,
     <1>15, <1>16, <1>17, <1>18, <1>19, <1>20, <1>21 DEF Next, Step

LEMMA LauncherInvariant == Spec => []LauncherInv
  BY InitLauncherInv, NextLauncherInv, PTL DEF Spec

-----------------------------------------------------------------------------

\* A wrapped command runs at most once, and under observation only behind the
\* stored start (launcher.py: gate, /started, the systemd scope that replaces the
\* first child), whatever raises or is lost.
THEOREM PayloadIsGuarded == Spec => []PayloadGuarded
<1>1. LauncherInv => PayloadOnce
  <2> SUFFICES ASSUME LauncherInv PROVE Cardinality(ran) <= 1
    BY DEF PayloadOnce
  <2>0. ran \subseteq {"first", "second"} /\ ~("first" \in ran /\ "second" \in ran)
    BY DEF LauncherInv, LauncherTypeOK, TypeOK, RanWasReleased, OneGate, Children
  <2>1. ran = {} \/ ran = {"first"} \/ ran = {"second"}
    BY <2>0, Zenon
  <2>2. Cardinality({}) = 0 /\ \A c \in Children : Cardinality({c}) = 1
    BY FS_EmptySet, FS_Singleton
  <2> QED
    BY <2>1, <2>2 DEF Children
<1>2. LauncherInv => GateHolds
  BY DEF LauncherInv, LauncherTypeOK, TypeOK, RanWasReleased, OpensStarted, GateHolds
<1> QED
  BY <1>1, <1>2, LauncherInvariant, PTL DEF PayloadGuarded

\* An exit that the sidecar has stored is that of a command with no process left
\* behind an open gate (launcher.py: wait, terminate and confirm, report).
THEOREM ExitsAreTruthful == Spec => []ExitIsTruthful
<1>1. LauncherInv => ExitIsTruthful
  BY DEF LauncherInv, ReportedIsGone, ExitIsTruthful
<1> QED
  BY <1>1, LauncherInvariant, PTL

\* Action property: a gate that has been closed, or opened, stays so.
GateDecidedOnce ==
    \A c \in Children : gate[c] # "shut" => gate'[c] = gate[c]

\* No retry, restart in a scope or signal reopens a gate or takes a release back.
THEOREM GatesAreFinal == Spec => [][GateDecidedOnce]_vars
<1>1. LauncherInv /\ [Next]_vars => [GateDecidedOnce]_vars
  <2> SUFFICES ASSUME LauncherInv, Next PROVE GateDecidedOnce
    OBVIOUS
  <2> USE DEF LauncherInv, LauncherTypeOK, TypeOK, OneGate, Before, Children, GateDecidedOnce
  <2>1. CASE UNCHANGED gate
    BY <2>1
  <2>2. CASE Unobserved \/ Release
    BY <2>2 DEF Unobserved, Release
  <2>3. CASE StartSecond \/ OpenSecond \/ DropFirst
    BY <2>3 DEF StartSecond, OpenSecond, DropFirst, Replaced
  <2>4. CASE Abandon \/ Cancel
    BY <2>4 DEF Abandon, Cancel
  <2>5. \/ UNCHANGED gate \/ Unobserved \/ Release \/ StartSecond \/ OpenSecond
        \/ DropFirst \/ Abandon \/ Cancel
    BY DEF Next, Step, Claim, Prepare, Spawn, Join, Scope, Probe, StartFirst, Arm, Wait, Report,
           Exec, Leave, End
  <2> QED
    BY <2>1, <2>2, <2>3, <2>4, <2>5
<1> QED
  BY <1>1, LauncherInvariant, PTL DEF Spec

-----------------------------------------------------------------------------
(* The BPF source: leases, the filter, the ring and the summaries.              *)

Assumption == TelemetryAssumption /\ IsFiniteSet(Runs)

Holders(g) == {r \in Runs : g \in lease[r]}

SourceInv ==
    /\ refs \in [Groups -> Nat] /\ allowed \subseteq Groups
    /\ lease \in [Runs -> SUBSET Groups] /\ routes \in [Groups -> SUBSET Runs]
    /\ \A g \in Groups : \A r \in routes[g] : g \in lease[r]
    /\ state \in [Runs -> {"new", "active", "disabled", "closed"}]
    /\ buffer \in [Runs -> SUBSET Nat]
    /\ \A r \in Runs : state[r] = "new" => lease[r] = {}
    /\ allowed \subseteq UNION {lease[r] : r \in Runs}
    /\ \A g \in Groups : refs[g] <= Cardinality(Holders(g))
    /\ \A r \in Runs : lease[r] = {} => buffer[r] = {}

\* No reference is lost but those that a failed acquisition took of another lease.
CountedInv ==
    /\ \A g \in Groups \ overdrawn : refs[g] = Cardinality(Holders(g))
    /\ CountedIsAllowed

DeliveryInv ==
    /\ ring \in Seq([event : Nat, group : Groups]) /\ Len(ring) <= RingSize
    /\ reader \in [event : Nat, to : SUBSET Runs]
    /\ losses \in Nat /\ events \in Nat

CallInv ==
    /\ call \in [Runs -> {"none", "running", "finishing", "finished", "done"}]
    /\ summary \in [Runs -> {"none", "ok", "invalid", "unavailable"}]
    /\ lossAtStart \in [Runs -> Nat] /\ due \in [Runs -> SUBSET Nat]
    /\ got \in [Runs -> SUBSET Nat] /\ late \in [Runs -> SUBSET Nat]
    /\ \A r \in Runs :
          /\ state[r] = "new" => call[r] = "none"
          /\ call[r] = "none" => due[r] = {}
          /\ call[r] = "finishing" => state[r] = "active"
          /\ state[r] = "closed" => call[r] = "done"
          /\ call[r] = "done" => state[r] = "closed"
          /\ call[r] \in {"none", "running", "finishing"} => summary[r] = "none"
          /\ lossAtStart[r] <= losses
          /\ r \in blind => pollError /\ call[r] # "none" /\ state[r] # "active"
                 /\ summary[r] # "ok"

\* As long as nothing was lost, an event of a running command is in the buffer of its
\* lease, in the ring or in the poller's hand, or its cgroup was overdrawn.
InRing(r, e) == \E i \in 1 .. Len(ring) : ring[i].event = e /\ ring[i].group \in ScopeOf[r]
InHand(r, e) == r \in reader.to /\ reader.event = e

Reaching(r) ==
    /\ ScopeOf[r] \subseteq lease[r]
    /\ \A g \in ScopeOf[r] : r \in routes[g]
    /\ r \in reader.to => lease[r] # {}
    /\ losses <= lossAtStart[r] =>
          \A e \in due[r] : e \in buffer[r] \/ e \in dark \/ InRing(r, e) \/ InHand(r, e)

ReachInv ==
    \A r \in Runs : /\ state[r] = "active" => Reaching(r)
                    /\ state[r] = "new" => r \notin reader.to

-----------------------------------------------------------------------------

LEMMA InitSource == Assumption /\ SourceInit => SourceInv /\ CountedInv
<1> SUFFICES ASSUME Assumption, SourceInit PROVE SourceInv /\ CountedInv
  OBVIOUS
<1>1. \A g \in Groups : Holders(g) = {}
  BY DEF SourceInit, Holders
<1>2. \A g \in Groups : refs[g] = Cardinality(Holders(g))
  BY <1>1, FS_EmptySet DEF SourceInit
<1>3. routes \in [Groups -> SUBSET Runs] /\ \A g \in Groups : routes[g] = {}
  BY DEF SourceInit
<1>4. \A g \in Groups : refs[g] <= Cardinality(Holders(g))
  BY <1>2 DEF SourceInit
<1>5. refs \in [Groups -> Nat] /\ allowed = {} /\ lease \in [Runs -> SUBSET Groups]
  BY DEF SourceInit
<1>6. SourceInv
  BY <1>3, <1>4, <1>5 DEF SourceInit, SourceInv
<1>7. CountedInv
  BY <1>2 DEF SourceInit, CountedInv, CountedIsAllowed
<1> QED
  BY <1>6, <1>7

LEMMA InitCalls == Assumption /\ SourceInit => DeliveryInv /\ CallInv /\ ReachInv
    /\ OkIsComplete
<1> SUFFICES ASSUME Assumption, SourceInit
PROVE DeliveryInv /\ CallInv /\ ReachInv /\ OkIsComplete
  OBVIOUS
<1>1. ring = <<>> /\ <<>> \in Seq([event : Nat, group : Groups]) /\ Len(ring) = 0
  BY DEF SourceInit
<1>2. DeliveryInv
  BY <1>1 DEF Assumption, TelemetryAssumption, SourceInit, DeliveryInv, Idle
<1>3. CallInv
  BY DEF SourceInit, CallInv
<1>4. ReachInv /\ OkIsComplete
  BY DEF SourceInit, ReachInv, OkIsComplete, Idle
<1> QED
  BY <1>2, <1>3, <1>4

\* What acquiring, extending and releasing do to the holders of a cgroup.
LEMMA EnterCounts ==
    ASSUME Assumption, SourceInv, NEW r \in Runs, NEW wanted \in SUBSET Groups,
           wanted \cap lease[r] = {}, lease' = [lease EXCEPT ![r] = @ \cup wanted]
    PROVE  /\ \A g \in wanted : Cardinality(Holders(g))' = Cardinality(Holders(g)) + 1
           /\ \A g \in Groups \ wanted : Cardinality(Holders(g))' = Cardinality(Holders(g))
           /\ \A g \in Groups : Cardinality(Holders(g)) \in Nat
<1>1. \A g \in Groups : IsFiniteSet(Holders(g))
  BY FS_Subset DEF Assumption, Holders
<1>2. \A g \in wanted : Holders(g)' = Holders(g) \cup {r} /\ r \notin Holders(g)
  BY DEF Holders, SourceInv
<1>3. \A g \in Groups \ wanted : Holders(g)' = Holders(g)
  BY DEF Holders, SourceInv
<1>4. \A g \in Groups : Cardinality(Holders(g)) \in Nat
  BY <1>1, FS_CardinalityType
<1> QED
  BY <1>1, <1>2, <1>3, <1>4, FS_AddElement

LEMMA ReleaseCounts ==
    ASSUME Assumption, SourceInv, NEW r \in Runs, ReleaseLease(r)
    PROVE  /\ \A g \in lease[r] : /\ Cardinality(Holders(g)) >= 1
                                  /\ Cardinality(Holders(g))' = Cardinality(Holders(g)) - 1
                                  /\ Cardinality(Holders(g)) > 1 => \E q \in Runs \ {r} :
                                         g \in lease[q]
           /\ \A g \in Groups \ lease[r] : Cardinality(Holders(g))' = Cardinality(Holders(g))
           /\ \A g \in Groups : Cardinality(Holders(g)) \in Nat
<1>1. \A g \in Groups : IsFiniteSet(Holders(g))
  BY FS_Subset DEF Assumption, Holders
<1>2. \A g \in lease[r] : Holders(g)' = Holders(g) \ {r} /\ r \in Holders(g)
  BY DEF ReleaseLease, Holders, SourceInv
<1>3. \A g \in Groups \ lease[r] : Holders(g)' = Holders(g)
  BY DEF ReleaseLease, Holders, SourceInv
<1>4. \A g \in Groups : Cardinality(Holders(g)) \in Nat
  BY <1>1, FS_CardinalityType
<1>5. lease[r] \subseteq Groups
  BY DEF SourceInv
<1>6. ASSUME NEW g \in lease[r]
      PROVE  /\ Cardinality(Holders(g)) >= 1
             /\ Cardinality(Holders(g))' = Cardinality(Holders(g)) - 1
             /\ Cardinality(Holders(g)) > 1 => \E q \in Runs \ {r} : g \in lease[q]
  <2>1. IsFiniteSet(Holders(g)) /\ IsFiniteSet(Holders(g) \ {r})
    BY <1>1, <1>5, FS_RemoveElement
  <2>2. Cardinality(Holders(g) \ {r}) = Cardinality(Holders(g)) - 1
    BY <1>2, <2>1, FS_RemoveElement
  <2>3. Cardinality(Holders(g) \ {r}) \in Nat /\ Cardinality(Holders(g)) \in Nat
    BY <2>1, FS_CardinalityType
  <2>4. Holders(g) \ {r} = {} => Cardinality(Holders(g) \ {r}) = 0
    BY FS_EmptySet
  <2>5. Cardinality(Holders(g)) > 1 => Holders(g) \ {r} # {}
    BY <2>2, <2>3, <2>4
  <2>6. Holders(g) \ {r} # {} => \E q \in Runs \ {r} : g \in lease[q]
    BY DEF Holders
  <2>7. Cardinality(Holders(g)) >= 1
    BY <2>2, <2>3
  <2> QED
    BY <1>2, <2>2, <2>5, <2>6, <2>7
<1> QED
  BY <1>3, <1>4, <1>6

-----------------------------------------------------------------------------

\* An acquisition that failed leaves no reference of its own; those that it takes of
\* others overdraw their cgroup.
LEMMA RollbackCounts ==
    ASSUME Assumption, SourceInv, NEW r \in Runs, Rollback(r)
    PROVE  /\ refs' \in [Groups -> Nat] /\ \A g \in Groups : refs'[g] <= refs[g]
           /\ allowed' \subseteq allowed /\ UNCHANGED <<lease, routes>>
           /\ overdrawn \subseteq overdrawn'
           /\ \A g \in Groups \ overdrawn' : refs'[g] = refs[g]
           /\ \A g \in allowed : refs[g] > 0 => g \in allowed'
<1>1. PICK bad \in ScopeOf[r], counted \in SUBSET ScopeOf[r] :
        /\ refs[bad] = 0 /\ bad \notin counted
        /\ refs' = [g \in Groups |->
                      IF g \in ScopeOf[r] THEN Fewer(refs[g] + (IF g \in counted THEN 1 ELSE 0))
                                        ELSE refs[g] + (IF g \in counted THEN 1 ELSE 0)]
        /\ allowed' = allowed \ {g \in counted : refs[g] = 0}
        /\ overdrawn' = overdrawn \cup {g \in ScopeOf[r] \ counted : refs[g] > 0}
        /\ UNCHANGED <<lease, routes>>
  BY DEF Rollback, SourceInv, Assumption, TelemetryAssumption
<1>2. refs' \in [Groups -> Nat] /\ \A g \in Groups : refs'[g] <= refs[g]
  BY <1>1 DEF SourceInv, Fewer
<1>3. ASSUME NEW g \in Groups \ overdrawn' PROVE refs'[g] = refs[g]
  <2>1. refs[g] \in Nat
    BY DEF SourceInv
  <2>2. CASE g \in counted
    BY <1>1, <2>1, <2>2 DEF Fewer
  <2>3. CASE g \in ScopeOf[r] \ counted
    BY <1>1, <1>3, <2>1, <2>3 DEF Fewer
  <2>4. CASE g \notin ScopeOf[r]
    BY <1>1, <2>1, <2>4
  <2> QED
    BY <2>2, <2>3, <2>4
<1>4. \A g \in allowed : refs[g] > 0 => g \in allowed'
  BY <1>1 DEF SourceInv
<1> QED
  BY <1>1, <1>2, <1>3, <1>4

LEMMA NextSourceInv ==
    Assumption /\ SourceInv /\ DeliveryInv /\ CallInv /\ [SourceNext]_sourceVars => SourceInv'
<1> SUFFICES ASSUME Assumption, SourceInv, DeliveryInv, CallInv, [SourceNext]_sourceVars
PROVE SourceInv'
  OBVIOUS
<1>1. ASSUME UNCHANGED source, UNCHANGED state, UNCHANGED buffer PROVE SourceInv'
  BY <1>1 DEF SourceInv, source, Holders
<1>2. ASSUME NEW g \in Groups, Emit(g) PROVE SourceInv'
  BY <1>1, <1>2 DEF Emit, collecting
<1>3. CASE Poll
  BY <1>1, <1>3 DEF Poll, collecting
<1>4. CASE PollerDies
  BY <1>1, <1>4 DEF PollerDies, collecting
<1>5. ASSUME NEW r \in Runs, Deliver(r) PROVE SourceInv'
  <2>1. buffer' \in [Runs -> SUBSET Nat] /\ \A q \in Runs : lease[q] = {} => buffer'[q] = {}
    BY <1>5 DEF Deliver, SourceInv, DeliveryInv, Open
  <2> QED
    BY <1>5, <2>1 DEF SourceInv, source, Deliver, collecting, Holders
<1>6. ASSUME NEW r \in Runs, NEW wanted \in SUBSET Groups, wanted \cap lease[r] = {},
             Reference(wanted), lease' = [lease EXCEPT ![r] = @ \cup wanted],
             UNCHANGED routes \/ routes' = RoutesOf(lease)', UNCHANGED buffer,
             NEW status, status \in {"active", "disabled"},
             state' = [state EXCEPT ![r] = status]
      PROVE  SourceInv'
  <2>1. \A g \in Groups : refs'[g] <= Cardinality(Holders(g))'
    <3>1. /\ \A g \in wanted : Cardinality(Holders(g))' = Cardinality(Holders(g)) + 1
          /\ \A g \in Groups \ wanted : Cardinality(Holders(g))' = Cardinality(Holders(g))
          /\ \A g \in Groups : Cardinality(Holders(g)) \in Nat
      BY <1>6, EnterCounts
    <3>2. \A g \in Groups : refs'[g] = refs[g] + (IF g \in wanted THEN 1 ELSE 0)
      BY <1>6 DEF Reference
    <3>3. \A g \in Groups : refs[g] \in Nat /\ refs[g] <= Cardinality(Holders(g))
      BY DEF SourceInv
    <3> QED
      BY <3>1, <3>2, <3>3
  <2>2. refs' \in [Groups -> Nat] /\ lease' \in [Runs -> SUBSET Groups]
        /\ \A q \in Runs : lease[q] \subseteq lease'[q]
    BY <1>6 DEF SourceInv, Reference
  <2>3. allowed' \subseteq UNION {lease'[q] : q \in Runs} /\ allowed' \subseteq Groups
    BY <1>6 DEF SourceInv, Reference
  <2>4. routes' \in [Groups -> SUBSET Runs]
        /\ \A g \in Groups : \A q \in routes'[g] : g \in lease'[q]
    <3>1. CASE UNCHANGED routes
      BY <2>2, <3>1 DEF SourceInv
    <3>2. CASE routes' = RoutesOf(lease)'
      BY <3>2 DEF RoutesOf
    <3> QED
      BY <1>6, <3>1, <3>2
  <2>5. \A q \in Runs : lease'[q] = {} => lease[q] = {}
    BY <2>2
  <2>6. /\ state' \in [Runs -> {"new", "active", "disabled", "closed"}]
        /\ \A q \in Runs : state'[q] = "new" => lease'[q] = {}
    BY <1>6 DEF SourceInv
  <2> QED
    BY <1>6, <2>1, <2>2, <2>3, <2>4, <2>5, <2>6 DEF SourceInv
<1>7. ASSUME NEW r \in Runs, Attach(r) PROVE SourceInv'
  <2>1. CASE Enter(r, ScopeOf[r]) /\ state' = [state EXCEPT ![r] = "active"]
    <3>1. lease[r] = {} /\ ScopeOf[r] \in SUBSET Groups /\ buffer' = buffer
      BY <1>7, <2>1 DEF Attach, SourceInv, Assumption, TelemetryAssumption
    <3>2. /\ Reference(ScopeOf[r]) /\ lease' = [lease EXCEPT ![r] = @ \cup ScopeOf[r]]
          /\ routes' = RoutesOf(lease)'
      BY <2>1 DEF Enter, RoutesOf
    <3> QED
      BY <1>6, <2>1, <3>1, <3>2
  <2>2. CASE Rollback(r) /\ state' = [state EXCEPT ![r] = "disabled"]
    <3>1. /\ refs' \in [Groups -> Nat] /\ \A g \in Groups : refs'[g] <= refs[g]
          /\ allowed' \subseteq allowed /\ UNCHANGED <<lease, routes>>
      BY <2>2, RollbackCounts
    <3>2. \A g \in Groups : Holders(g)' = Holders(g) /\ Cardinality(Holders(g)) \in Nat
      BY <3>1, FS_Subset, FS_CardinalityType DEF Holders, Assumption
    <3>3. \A g \in Groups : refs'[g] <= Cardinality(Holders(g)')
      BY <3>1, <3>2 DEF SourceInv
    <3> QED
      BY <1>7, <2>2, <3>1, <3>3 DEF Attach, SourceInv
  <2>3. CASE Withdraw(r) /\ state' = [state EXCEPT ![r] = "disabled"]
    <3>1. /\ routes' \in [Groups -> SUBSET Runs]
          /\ \A g \in Groups : \A q \in routes'[g] : g \in lease[q]
      BY <2>3 DEF Withdraw, RoutesOf
    <3> QED
      BY <1>7, <2>3, <3>1 DEF Attach, Withdraw, SourceInv, Holders
  <2> QED
    BY <1>7, <2>1, <2>2, <2>3 DEF Attach
<1>8. ASSUME NEW r \in Runs, Begin(r) PROVE SourceInv'
  BY <1>8 DEF Begin, SourceInv, source, Holders
<1>9. ASSUME NEW r \in Runs, FinishBegin(r) PROVE SourceInv'
  <2>1. /\ UNCHANGED <<refs, allowed, lease, routes, buffer>>
        /\ state' = state \/ state' = [state EXCEPT ![r] = "disabled"]
    BY <1>9 DEF FinishBegin, source
  <2>2. /\ state' \in [Runs -> {"new", "active", "disabled", "closed"}]
        /\ \A q \in Runs : state'[q] = "new" => state[q] = "new"
    BY <2>1 DEF SourceInv
  <2> QED
    BY <2>1, <2>2 DEF SourceInv, Holders
<1>10. ASSUME NEW r \in Runs, FinishSlice(r) PROVE SourceInv'
  <2>1. NewGroups(r) \in SUBSET Groups /\ NewGroups(r) \cap lease[r] = {}
    BY DEF NewGroups, Assumption, TelemetryAssumption
  <2>2. state' = [state EXCEPT ![r] = "active"] /\ buffer' = buffer
    BY <1>10 DEF FinishSlice, CallInv, SourceInv
  <2>3. /\ Reference(NewGroups(r)) /\ lease' = [lease EXCEPT ![r] = @ \cup NewGroups(r)]
        /\ routes' = RoutesOf(lease)'
    BY <1>10 DEF FinishSlice, Enter, RoutesOf
  <2> QED
    BY <1>6, <2>1, <2>2, <2>3
<1>11. ASSUME NEW r \in Runs, FinishFails(r) PROVE SourceInv'
  <2>1. PICK fresh \in SUBSET NewGroups(r) : Halfway(r, fresh)
    BY <1>11 DEF FinishFails, Extended
  <2>2. fresh \in SUBSET Groups /\ fresh \cap lease[r] = {}
    BY DEF NewGroups, Assumption, TelemetryAssumption
  <2>3. state' = [state EXCEPT ![r] = "disabled"] /\ buffer' = buffer
    BY <1>11 DEF FinishFails
  <2> QED
    BY <1>6, <2>1, <2>2, <2>3 DEF Halfway
<1>12. ASSUME NEW r \in Runs, Finalize(r) PROVE SourceInv'
  <2>1. ReleaseLease(r) /\ state' = [state EXCEPT ![r] = "closed"]
    BY <1>12 DEF Finalize, Closes
  <2>2. \A g \in Groups : refs'[g] <= Cardinality(Holders(g))'
    <3>1. /\ \A g \in lease[r] : /\ Cardinality(Holders(g)) >= 1
                                 /\ Cardinality(Holders(g))' = Cardinality(Holders(g)) - 1
          /\ \A g \in Groups \ lease[r] : Cardinality(Holders(g))' = Cardinality(Holders(g))
          /\ \A g \in Groups : Cardinality(Holders(g)) \in Nat
      BY <2>1, ReleaseCounts
    <3>2. \A g \in Groups : refs'[g] = IF g \in lease[r] THEN Fewer(refs[g]) ELSE refs[g]
      BY <2>1 DEF ReleaseLease, Unreference
    <3>3. \A g \in Groups : refs[g] \in Nat /\ refs[g] <= Cardinality(Holders(g))
      BY DEF SourceInv
    <3> QED
      BY <3>1, <3>2, <3>3 DEF Fewer
  <2>3. refs' \in [Groups -> Nat] /\ lease' \in [Runs -> SUBSET Groups]
    BY <2>1 DEF SourceInv, ReleaseLease, Unreference, Fewer
  <2>4. ASSUME NEW g \in allowed' PROVE \E q \in Runs : g \in lease'[q]
    <3>1. CASE g \in lease[r]
      <4>1. refs[g] > 1 /\ refs[g] <= Cardinality(Holders(g)) /\ g \in Groups
        BY <2>1, <2>4, <3>1 DEF SourceInv, ReleaseLease, Unreference, Dropped
      <4>2. PICK q \in Runs \ {r} : g \in lease[q]
        BY <2>1, <3>1, <4>1, ReleaseCounts DEF SourceInv
      <4> QED
        BY <2>1, <4>2 DEF ReleaseLease, SourceInv
    <3>2. CASE g \notin lease[r]
      BY <2>1, <2>4, <3>2 DEF SourceInv, ReleaseLease, Unreference
    <3> QED
      BY <3>1, <3>2
  <2>5. /\ routes' \in [Groups -> SUBSET Runs] /\ allowed' \subseteq Groups
        /\ \A g \in Groups : \A q \in routes'[g] : g \in lease'[q]
    <3>1. CASE lease[r] = {}
      <4>1. lease' = lease /\ routes' = routes
        BY <2>1, <3>1 DEF ReleaseLease, SourceInv
      <4> QED
        BY <2>1, <4>1 DEF SourceInv, ReleaseLease, Unreference
    <3>2. CASE lease[r] # {}
      BY <2>1, <3>2 DEF SourceInv, ReleaseLease, Unreference, RoutesOf
    <3> QED
      BY <3>1, <3>2
  <2>6. buffer' \in [Runs -> SUBSET Nat] /\ \A q \in Runs : lease'[q] = {} => buffer'[q] = {}
    BY <2>1 DEF SourceInv, ReleaseLease
  <2>7. allowed' \subseteq UNION {lease'[q] : q \in Runs}
    BY <2>4
  <2>8. state' \in [Runs -> {"new", "active", "disabled", "closed"}]
    BY <2>1 DEF SourceInv
  <2>9. \A q \in Runs : state'[q] = "new" => lease'[q] = {}
    BY <2>1 DEF SourceInv, ReleaseLease
  <2> QED
    BY <2>2, <2>3, <2>5, <2>6, <2>7, <2>8, <2>9 DEF SourceInv
<1>13. CASE UNCHANGED sourceVars
  BY <1>1, <1>13 DEF sourceVars, source, collecting
<1> QED
  BY <1>2, <1>3, <1>4, <1>5, <1>7, <1>8, <1>9, <1>10, <1>11, <1>12, <1>13 DEF SourceNext

\* The counts of a cgroup are exact until it is overdrawn, and the filter lacks nothing.
LEMMA NextCountedInv ==
    Assumption /\ SourceInv /\ CallInv /\ CountedInv /\ [SourceNext]_sourceVars => CountedInv'
<1> SUFFICES ASSUME Assumption, SourceInv, CallInv, CountedInv, [SourceNext]_sourceVars
             PROVE  CountedInv'
  OBVIOUS
<1>1. ASSUME UNCHANGED <<refs, allowed, lease, overdrawn>> PROVE CountedInv'
  BY <1>1 DEF CountedInv, CountedIsAllowed, Holders
<1>2. ASSUME NEW r \in Runs, NEW wanted \in SUBSET Groups, wanted \cap lease[r] = {},
             Reference(wanted), lease' = [lease EXCEPT ![r] = @ \cup wanted],
             overdrawn' = overdrawn
      PROVE  CountedInv'
  <2>1. /\ \A g \in wanted : Cardinality(Holders(g))' = Cardinality(Holders(g)) + 1
        /\ \A g \in Groups \ wanted : Cardinality(Holders(g))' = Cardinality(Holders(g))
    BY <1>2, EnterCounts
  <2>2. \A g \in Groups : refs'[g] = refs[g] + (IF g \in wanted THEN 1 ELSE 0)
            /\ refs[g] \in Nat
    BY <1>2 DEF Reference, SourceInv
  <2>3. \A g \in Groups \ overdrawn' : refs'[g] = Cardinality(Holders(g))'
    BY <1>2, <2>1, <2>2 DEF CountedInv
  <2>4. CountedIsAllowed'
    BY <1>2 DEF CountedInv, CountedIsAllowed, Reference, SourceInv
  <2> QED
    BY <2>3, <2>4 DEF CountedInv
<1>3. \A g \in Groups : IsFiniteSet(Holders(g)) /\ Cardinality(Holders(g)) \in Nat
  BY FS_Subset, FS_CardinalityType DEF Assumption, Holders
\* A cgroup that is leased and counted has a reference.
<1>4. ASSUME NEW q \in Runs, NEW g \in lease[q], g \notin overdrawn PROVE refs[g] > 0
  <2>1. g \in Groups /\ Holders(g) # {}
    BY <1>4 DEF SourceInv, Holders
  <2>2. Cardinality(Holders(g)) # 0
    BY <1>3, <2>1, FS_EmptySet
  <2> QED
    BY <1>3, <1>4, <2>1, <2>2 DEF CountedInv
<1>5. ASSUME NEW r \in Runs, Attach(r) PROVE CountedInv'
  <2>1. CASE Enter(r, ScopeOf[r]) /\ UNCHANGED overdrawn
    <3>1. lease[r] = {} /\ ScopeOf[r] \in SUBSET Groups
      BY <1>5, <2>1 DEF Attach, SourceInv, Assumption, TelemetryAssumption
    <3> QED
      BY <1>2, <2>1, <3>1 DEF Enter
  <2>2. CASE Rollback(r)
    <3>1. /\ UNCHANGED lease /\ overdrawn \subseteq overdrawn'
          /\ \A g \in Groups \ overdrawn' : refs'[g] = refs[g]
          /\ \A g \in allowed : refs[g] > 0 => g \in allowed'
      BY <2>2, RollbackCounts
    <3>2. \A g \in Groups \ overdrawn' : refs'[g] = Cardinality(Holders(g))'
      BY <3>1 DEF CountedInv, Holders
    <3>3. CountedIsAllowed'
      BY <1>4, <3>1 DEF CountedInv, CountedIsAllowed
    <3> QED
      BY <3>2, <3>3 DEF CountedInv
  <2>3. CASE Withdraw(r)
    <3>1. \A g \in Groups : Holders(g)' = Holders(g) /\ refs' = refs /\ overdrawn' = overdrawn
      BY <2>3 DEF Withdraw, Holders
    <3>2. CountedIsAllowed'
      BY <1>4, <2>3 DEF Withdraw, CountedInv, CountedIsAllowed
    <3> QED
      BY <3>1, <3>2, <2>3 DEF CountedInv, Withdraw
  <2> QED
    BY <1>5, <2>1, <2>2, <2>3 DEF Attach
<1>6. ASSUME NEW r \in Runs, FinishSlice(r) PROVE CountedInv'
  <2>1. NewGroups(r) \in SUBSET Groups /\ NewGroups(r) \cap lease[r] = {}
    BY DEF NewGroups, Assumption, TelemetryAssumption
  <2> QED
    BY <1>2, <1>6, <2>1 DEF FinishSlice, Enter
<1>7. ASSUME NEW r \in Runs, FinishFails(r) PROVE CountedInv'
  <2>1. PICK fresh \in SUBSET NewGroups(r) : Halfway(r, fresh)
    BY <1>7 DEF FinishFails, Extended
  <2>2. fresh \in SUBSET Groups /\ fresh \cap lease[r] = {}
    BY DEF NewGroups, Assumption, TelemetryAssumption
  <2> QED
    BY <1>2, <1>7, <2>1, <2>2 DEF FinishFails, Halfway, history
<1>8. ASSUME NEW r \in Runs, Finalize(r) PROVE CountedInv'
  <2>1. ReleaseLease(r) /\ overdrawn' = overdrawn
    BY <1>8 DEF Finalize, Closes, history
  <2>2. /\ \A g \in lease[r] : /\ Cardinality(Holders(g)) >= 1
                               /\ Cardinality(Holders(g))' = Cardinality(Holders(g)) - 1
        /\ \A g \in Groups \ lease[r] : Cardinality(Holders(g))' = Cardinality(Holders(g))
        /\ \A g \in Groups : Cardinality(Holders(g)) \in Nat
    BY <2>1, ReleaseCounts
  <2>3. \A g \in Groups : refs'[g] = (IF g \in lease[r] THEN Fewer(refs[g]) ELSE refs[g])
                          /\ refs[g] \in Nat
    BY <2>1 DEF ReleaseLease, Unreference, SourceInv
  <2>4. \A g \in Groups \ overdrawn' : refs'[g] = Cardinality(Holders(g))'
    BY <2>1, <2>2, <2>3 DEF CountedInv, Fewer
  \* Whoever still holds a released cgroup is counted besides the one who leaves.
  <2>5. ASSUME NEW q \in Runs, NEW g \in lease'[q], g \notin overdrawn' PROVE g \in allowed'
    <3>1. q # r /\ g \in lease[q] /\ g \in allowed /\ g \in Groups /\ g \notin overdrawn
      BY <2>1, <2>5 DEF ReleaseLease, SourceInv, CountedInv, CountedIsAllowed
    <3>2. g \in lease[r] => Cardinality(Holders(g)) # 1
      <4> SUFFICES ASSUME g \in lease[r], Cardinality(Holders(g)) = 1 PROVE FALSE
        OBVIOUS
      <4>1. IsFiniteSet(Holders(g))
        BY <1>3, <3>1
      <4>2. PICK x : Holders(g) = {x}
        BY <4>1, FS_Singleton
      <4>3. r \in Holders(g) /\ q \in Holders(g)
        BY <3>1 DEF Holders
      <4> QED
        BY <3>1, <4>2, <4>3
    <3>3. g \in lease[r] => refs[g] > 1
      BY <2>2, <2>3, <3>1, <3>2 DEF CountedInv
    <3> QED
      BY <2>1, <3>1, <3>3, <2>3 DEF ReleaseLease, Unreference, Dropped
  <2> QED
    BY <2>4, <2>5 DEF CountedInv, CountedIsAllowed
<1>9. ASSUME NEW g \in Groups, Emit(g) PROVE CountedInv'
  BY <1>1, <1>9 DEF Emit, source
<1>10. CASE Poll \/ PollerDies
  BY <1>1, <1>10 DEF Poll, PollerDies, source, history
<1>11. ASSUME NEW r \in Runs, Deliver(r) \/ Begin(r) \/ FinishBegin(r) PROVE CountedInv'
  BY <1>1, <1>11 DEF Deliver, Begin, FinishBegin, source, history
<1>12. CASE UNCHANGED sourceVars
  BY <1>1, <1>12 DEF sourceVars, source, history
<1> QED
  BY <1>5, <1>6, <1>7, <1>8, <1>9, <1>10, <1>11, <1>12 DEF SourceNext

-----------------------------------------------------------------------------

LEMMA NextDeliveryInv ==
    Assumption /\ SourceInv /\ DeliveryInv /\ [SourceNext]_sourceVars => DeliveryInv'
<1> SUFFICES ASSUME Assumption, SourceInv, DeliveryInv, [SourceNext]_sourceVars
PROVE DeliveryInv'
  OBVIOUS
<1> DEFINE Event == [event : Nat, group : Groups]
<1>1. ASSUME UNCHANGED <<ring, losses, reader, events>> PROVE DeliveryInv'
  BY <1>1 DEF DeliveryInv
<1>2. ASSUME NEW g \in Groups, Emit(g) PROVE DeliveryInv'
  <2>1. events' \in Nat /\ losses' \in Nat /\ reader' = reader
    BY <1>2 DEF Emit, DeliveryInv
  <2>2. CASE ring' = ring
    BY <2>1, <2>2 DEF DeliveryInv
  <2>3. CASE ring' = Append(ring, [event |-> events', group |-> g]) /\ Len(ring) < RingSize
    <3>1. [event |-> events', group |-> g] \in Event
      BY <2>1
    <3>2. ring' \in Seq(Event) /\ Len(ring') = Len(ring) + 1
      BY <2>3, <3>1 DEF DeliveryInv
    <3> QED
      BY <2>1, <2>3, <3>2 DEF DeliveryInv, Assumption, TelemetryAssumption
  <2> QED
    BY <1>2, <2>2, <2>3 DEF Emit
<1>3. CASE Poll
  <2>1. ring # <<>> /\ ring \in Seq(Event)
    BY <1>3 DEF Poll, DeliveryInv
  <2>2. Head(ring) \in Event /\ Tail(ring) \in Seq(Event) /\ Len(Tail(ring)) = Len(ring) - 1
        /\ Len(ring) \in Nat
    <3> HIDE DEF Event
    <3> QED
      BY <2>1
  <2>3. reader' \in [event : Nat, to : SUBSET Runs]
    BY <1>3, <2>2 DEF Poll, SourceInv
  <2> QED
    BY <1>3, <2>2, <2>3 DEF Poll, DeliveryInv, Assumption, TelemetryAssumption
<1>4. ASSUME NEW r \in Runs, Deliver(r) PROVE DeliveryInv'
  BY <1>4 DEF Deliver, DeliveryInv
<1>5. CASE PollerDies
  BY <1>1, <1>5 DEF PollerDies
<1>6. ASSUME NEW r \in Runs, Attach(r) \/ Begin(r) \/ FinishBegin(r) \/ FinishSlice(r)
                             \/ FinishFails(r) \/ Finalize(r)
      PROVE  DeliveryInv'
  BY <1>1, <1>6 DEF Attach, Begin, FinishBegin, FinishSlice, FinishFails, Finalize, delivery
<1>7. CASE UNCHANGED sourceVars
  BY <1>1, <1>7 DEF sourceVars, delivery
<1> QED
  BY <1>2, <1>3, <1>4, <1>5, <1>6, <1>7 DEF SourceNext

LEMMA NextCallInv ==
    Assumption /\ SourceInv /\ DeliveryInv /\ CallInv /\ [SourceNext]_sourceVars => CallInv'
<1> SUFFICES ASSUME Assumption, SourceInv, DeliveryInv, CallInv, [SourceNext]_sourceVars
PROVE CallInv'
  OBVIOUS
<1> USE DEF CallInv, collecting, history, delivery
<1>1. ASSUME NEW g \in Groups, Emit(g) PROVE CallInv'
  BY <1>1 DEF Emit, DeliveryInv
<1>2. CASE Poll
  BY <1>2 DEF Poll
<1>3. CASE PollerDies
  BY <1>3 DEF PollerDies
<1>4. ASSUME NEW r \in Runs, Deliver(r) PROVE CallInv'
  BY <1>4 DEF Deliver
<1>5. ASSUME NEW r \in Runs, Attach(r) PROVE CallInv'
  BY <1>5 DEF Attach, SourceInv
<1>6. ASSUME NEW r \in Runs, Begin(r) PROVE CallInv'
  BY <1>6 DEF Begin, SourceInv, DeliveryInv
<1>7. ASSUME NEW r \in Runs, FinishBegin(r) PROVE CallInv'
  BY <1>7 DEF FinishBegin, SourceInv
<1>8. ASSUME NEW r \in Runs, FinishSlice(r) PROVE CallInv'
  BY <1>8 DEF FinishSlice, SourceInv, Quality, OnTheWay
<1>9. ASSUME NEW r \in Runs, FinishFails(r) PROVE CallInv'
  BY <1>9 DEF FinishFails, SourceInv
<1>10. ASSUME NEW r \in Runs, Finalize(r) PROVE CallInv'
  BY <1>10 DEF Finalize, SourceInv
<1>11. CASE UNCHANGED sourceVars
  BY <1>11 DEF sourceVars
<1> QED
  BY <1>1, <1>2, <1>3, <1>4, <1>5, <1>6, <1>7, <1>8, <1>9, <1>10, <1>11 DEF SourceNext

-----------------------------------------------------------------------------

\* The events of a command reach the buffer of its lease, unless one was lost.
LEMMA NextReachInv ==
    /\ Assumption /\ SourceInv /\ CountedInv /\ DeliveryInv /\ CallInv /\ ReachInv
    /\ [SourceNext]_sourceVars
    => ReachInv'
<1> SUFFICES ASSUME Assumption, SourceInv, CountedInv, DeliveryInv, CallInv, ReachInv,
                    [SourceNext]_sourceVars
             PROVE  ReachInv'
  OBVIOUS
<1>1. ASSUME UNCHANGED <<lease, routes, reader, losses, lossAtStart, due, buffer, ring, state,
             dark>>
      PROVE  ReachInv'
  BY <1>1 DEF ReachInv, Reaching, InRing, InHand
<1>2. ASSUME NEW g \in Groups, Emit(g) PROVE ReachInv'
  <2>1. UNCHANGED <<lease, routes, reader, lossAtStart, buffer, state, call>>
        /\ dark \subseteq dark'
    BY <1>2 DEF Emit, source, collecting
  <2> SUFFICES ASSUME NEW r \in Runs, state[r] = "active", losses' <= lossAtStart[r],
                      NEW e \in due'[r]
               PROVE  e \in buffer[r] \/ e \in dark' \/ InRing(r, e)' \/ InHand(r, e)
    BY <2>1 DEF ReachInv, Reaching, InHand
  <2>2. losses' = losses
    BY <1>2 DEF Emit, DeliveryInv, CallInv
  <2>3. ring' = ring \/ ring' = Append(ring, [event |-> events', group |-> g])
    BY <1>2 DEF Emit
  <2>4. ASSUME InRing(r, e) PROVE InRing(r, e)'
    <3>1. PICK i \in 1 .. Len(ring) : ring[i].event = e /\ ring[i].group \in ScopeOf[r]
      BY <2>4 DEF InRing
    <3>2. CASE ring' = ring
      BY <3>1, <3>2 DEF InRing
    <3>3. CASE ring' = Append(ring, [event |-> events', group |-> g])
      <4>1. ring \in Seq([event : Nat, group : Groups])
        BY DEF DeliveryInv
      <4>2. i \in 1 .. Len(ring') /\ ring'[i] = ring[i]
        BY <3>1, <3>3, <4>1
      <4> QED
        BY <3>1, <4>2 DEF InRing
    <3> QED
      BY <2>3, <3>2, <3>3
  <2>5. CASE e \in due[r]
    BY <2>1, <2>2, <2>4, <2>5 DEF ReachInv, Reaching
  <2>6. CASE e \notin due[r]
    <3>1. e = events' /\ g \in ScopeOf[r] /\ g \in lease[r]
      BY <1>2, <2>6 DEF Emit, CallInv, ReachInv, Reaching
    <3>2. CASE g \notin allowed
      <4>1. g \in overdrawn
        BY <3>1, <3>2 DEF CountedInv, CountedIsAllowed
      <4> QED
        BY <1>2, <3>1, <3>2, <4>1 DEF Emit
    <3>3. CASE g \in allowed
      <4>1. ring' = Append(ring, [event |-> events', group |-> g])
        BY <1>2, <2>2, <3>3 DEF Emit, DeliveryInv
      <4>2. Len(ring) + 1 \in 1 .. Len(ring') /\ ring'[Len(ring) + 1] = [event |-> events',
                group |-> g]
        BY <4>1 DEF DeliveryInv
      <4> QED
        BY <3>1, <4>2 DEF InRing
    <3> QED
      BY <3>2, <3>3
  <2> QED
    BY <2>5, <2>6
<1>3. CASE Poll
  <2>1. UNCHANGED <<lease, routes, losses, lossAtStart, due, buffer, state, dark>>
    BY <1>3 DEF Poll, source, collecting, history
  <2>2. reader.to = {} /\ ring # <<>> /\ ring' = Tail(ring)
        /\ reader' = [event |-> Head(ring).event, to |-> routes[Head(ring).group]]
    BY <1>3 DEF Poll
  <2>3. Len(ring) \in Nat /\ Len(ring) >= 1 /\ Len(ring') = Len(ring) - 1
        /\ Head(ring) = ring[1] /\ \A i \in 2 .. Len(ring) : ring'[i - 1] = ring[i]
    BY <2>2 DEF DeliveryInv
  <2>4. ring[1].group \in Groups
    <3> DEFINE Event == [event : Nat, group : Groups]
    <3>1. ring \in Seq(Event) /\ 1 \in 1 .. Len(ring)
      BY <2>3 DEF DeliveryInv
    <3>2. ring[1] \in Event
      <4> HIDE DEF Event
      <4> QED
        BY <3>1
    <3> QED
      BY <3>2
  <2>5. ASSUME NEW r \in Runs, r \in reader'.to PROVE ring[1].group \in lease[r]
    BY <2>2, <2>3, <2>4, <2>5 DEF SourceInv
  <2>6. ASSUME NEW r \in Runs, state[r] = "active", NEW e, InRing(r, e)
        PROVE  InRing(r, e)' \/ InHand(r, e)'
    <3>1. PICK i \in 1 .. Len(ring) : ring[i].event = e /\ ring[i].group \in ScopeOf[r]
      BY <2>6 DEF InRing
    <3>2. CASE i = 1
      <4>1. r \in routes[ring[1].group]
        BY <2>6, <3>1, <3>2 DEF ReachInv, Reaching
      <4> QED
        BY <2>2, <2>3, <3>1, <3>2, <4>1 DEF InHand
    <3>3. CASE i # 1
      <4>1. i - 1 \in 1 .. Len(ring') /\ ring'[i - 1] = ring[i]
        BY <2>3, <3>1, <3>3
      <4> QED
        BY <3>1, <4>1 DEF InRing
    <3> QED
      BY <3>2, <3>3
  <2>7. \A r \in Runs : \A e : ~InHand(r, e)
    BY <2>2 DEF InHand
  <2>8. ASSUME NEW r \in Runs, state[r] = "active" PROVE Reaching(r)'
    BY <2>1, <2>5, <2>6, <2>7, <2>8 DEF ReachInv, Reaching
  <2>9. ASSUME NEW r \in Runs, state[r] = "new" PROVE r \notin reader'.to
    BY <2>5, <2>9 DEF SourceInv
  <2> QED
    BY <2>1, <2>8, <2>9 DEF ReachInv
<1>4. ASSUME NEW r \in Runs, Deliver(r) PROVE ReachInv'
  <2>1. UNCHANGED <<lease, routes, ring, losses, lossAtStart, due, state, dark>>
    BY <1>4 DEF Deliver, source, collecting, history
  <2>2. /\ reader' = [reader EXCEPT !.to = @ \ {r}]
        /\ buffer' = IF Open(r) THEN [buffer EXCEPT ![r] = @ \cup {reader.event}] ELSE buffer
        /\ r \in reader.to
    BY <1>4 DEF Deliver
  <2>3. reader'.to = reader.to \ {r} /\ reader'.event = reader.event
    BY <2>2 DEF DeliveryInv
  <2>4. ASSUME NEW q \in Runs, state[q] = "active", NEW e,
               e \in buffer[q] \/ InRing(q, e) \/ InHand(q, e)
        PROVE  e \in buffer'[q] \/ InRing(q, e)' \/ InHand(q, e)'
    BY <2>1, <2>2, <2>3, <2>4 DEF InRing, InHand, Open, ReachInv, Reaching, SourceInv
  <2> QED
    BY <2>1, <2>3, <2>4 DEF ReachInv, Reaching
<1>5. CASE PollerDies
  BY <1>1, <1>5 DEF PollerDies, source, collecting, history
<1>6. ASSUME NEW r \in Runs, Attach(r) PROVE ReachInv'
  <2>1. UNCHANGED <<reader, losses, lossAtStart, due, buffer, ring, dark>>
    BY <1>6 DEF Attach, delivery
  <2>2. due[r] = {} /\ r \notin reader.to /\ state[r] = "new"
    BY <1>6 DEF Attach, CallInv, ReachInv
  <2>3. CASE Enter(r, ScopeOf[r]) /\ state' = [state EXCEPT ![r] = "active"]
    <3>1. \A q \in Runs : lease[q] \subseteq lease'[q]
          /\ lease'[r] = lease[r] \cup ScopeOf[r]
      BY <2>3 DEF Enter, SourceInv
    <3>2. \A q \in Runs : \A g \in Groups : g \in lease'[q] => q \in routes'[g]
      BY <2>3 DEF Enter, RoutesOf
    <3>3. ScopeOf \in [Runs -> SUBSET Groups]
      BY DEF Assumption, TelemetryAssumption
    <3>4. ASSUME NEW q \in Runs, state'[q] = "active" PROVE Reaching(q)'
      <4>1. CASE q = r
        BY <2>1, <2>2, <3>1, <3>2, <3>3, <4>1 DEF Reaching
      <4>2. CASE q # r
        <5>1. Reaching(q)
          BY <2>3, <3>4, <4>2 DEF ReachInv, SourceInv
        <5>2. /\ ScopeOf[q] \subseteq lease'[q]
              /\ \A g \in ScopeOf[q] : q \in routes'[g]
              /\ q \in reader'.to => lease'[q] # {}
          BY <2>1, <3>1, <3>2, <3>3, <5>1 DEF Reaching
        <5> QED
          BY <2>1, <5>1, <5>2 DEF Reaching, InRing, InHand
      <4> QED
        BY <4>1, <4>2
    <3>5. \A q \in Runs : state'[q] = "new" => q \notin reader'.to
      BY <2>1, <2>3 DEF ReachInv, SourceInv
    <3> QED
      BY <3>4, <3>5 DEF ReachInv
  <2>4. CASE (Rollback(r) \/ Withdraw(r)) /\ state' = [state EXCEPT ![r] = "disabled"]
    <3>1. lease' = lease /\ (routes' = routes \/ routes' = RoutesOf(lease))
      BY <2>4 DEF Rollback, Withdraw
    <3>2. \A q \in Runs : /\ state'[q] = "active" => state[q] = "active"
                          /\ state'[q] = "new" => state[q] = "new"
      BY <2>4 DEF SourceInv
    <3>3. ASSUME NEW q \in Runs, state'[q] = "active" PROVE Reaching(q)'
      <4>1. Reaching(q) /\ ScopeOf[q] \subseteq Groups
        BY <3>2, <3>3 DEF ReachInv, Assumption, TelemetryAssumption
      <4>2. \A g \in ScopeOf[q] : q \in routes'[g]
        BY <3>1, <4>1 DEF Reaching, RoutesOf
      <4> QED
        BY <2>1, <3>1, <4>1, <4>2 DEF Reaching, InRing, InHand
    <3> QED
      BY <2>1, <3>2, <3>3 DEF ReachInv
  <2> QED
    BY <1>6, <2>3, <2>4 DEF Attach
<1>7. ASSUME NEW r \in Runs, Begin(r) PROVE ReachInv'
  <2>1. UNCHANGED <<lease, routes, reader, losses, due, buffer, ring, dark>>
    BY <1>7 DEF Begin, source, delivery
  <2>2. due[r] = {} /\ state[r] # "new"
    BY <1>7 DEF Begin, CallInv
  <2>3. \A q \in Runs : /\ q # r => state'[q] = state[q] /\ lossAtStart'[q] = lossAtStart[q]
                        /\ state'[r] \in {state[r], "disabled"}
    BY <1>7 DEF Begin, SourceInv, CallInv
  <2> QED
    BY <2>1, <2>2, <2>3 DEF ReachInv, Reaching, InRing, InHand
\* Of those who are active, the routes of their own scope stay.
<1>8. ASSUME NEW r \in Runs, FinishBegin(r) \/ FinishSlice(r) \/ FinishFails(r) PROVE ReachInv'
  <2>1. UNCHANGED <<reader, losses, lossAtStart, due, buffer, ring, dark>>
    BY <1>8 DEF FinishBegin, FinishSlice, FinishFails, delivery, history
  <2>2. state' = state \/ (state' = [state EXCEPT ![r] = "disabled"])
    BY <1>8 DEF FinishBegin, FinishSlice, FinishFails, SourceInv
  <2>3. \A q \in Runs : lease[q] \subseteq lease'[q]
    BY <1>8 DEF FinishBegin, FinishSlice, FinishFails, Enter, Halfway, SourceInv, source
  <2>4. routes' = routes \/ routes' = RoutesOf(lease)'
    BY <1>8 DEF FinishBegin, FinishSlice, FinishFails, Enter, Halfway, RoutesOf, source
  <2>5. \A q \in Runs : /\ state'[q] = "active" => state[q] = "active"
                        /\ state'[q] = "new" => state[q] = "new"
    BY <2>2 DEF SourceInv
  <2>6. ASSUME NEW q \in Runs, state'[q] = "active" PROVE Reaching(q)'
    <3>1. Reaching(q) /\ ScopeOf[q] \subseteq Groups
      BY <2>5, <2>6 DEF ReachInv, Assumption, TelemetryAssumption
    <3>2. ScopeOf[q] \subseteq lease'[q] /\ (lease[q] # {} => lease'[q] # {})
      BY <2>3, <3>1 DEF Reaching
    <3>3. \A g \in ScopeOf[q] : q \in routes'[g]
      BY <2>4, <3>1, <3>2 DEF Reaching, RoutesOf
    <3> QED
      BY <2>1, <3>1, <3>2, <3>3 DEF Reaching, InRing, InHand
  <2> QED
    BY <2>1, <2>5, <2>6 DEF ReachInv
<1>9. ASSUME NEW r \in Runs, Finalize(r) PROVE ReachInv'
  <2>1. UNCHANGED <<reader, losses, lossAtStart, due, ring, dark>>
    BY <1>9 DEF Finalize, delivery, history
  <2>2. /\ state' = [state EXCEPT ![r] = "closed"]
        /\ \A q \in Runs \ {r} : lease'[q] = lease[q] /\ buffer'[q] = buffer[q]
        /\ routes' = routes \/ routes' = RoutesOf(lease)'
    BY <1>9 DEF Finalize, Closes, ReleaseLease, SourceInv, RoutesOf
  <2>3. \A q \in Runs : /\ state'[q] = "active" => q # r /\ state[q] = "active"
                        /\ state'[q] = "new" => state[q] = "new"
    BY <2>2 DEF SourceInv
  <2>4. ASSUME NEW q \in Runs, state'[q] = "active" PROVE Reaching(q)'
    <3>1. Reaching(q) /\ ScopeOf[q] \subseteq Groups /\ q # r
      BY <2>3, <2>4 DEF ReachInv, Assumption, TelemetryAssumption
    <3>2. \A g \in ScopeOf[q] : q \in routes'[g]
      BY <2>2, <3>1 DEF Reaching, RoutesOf
    <3> QED
      BY <2>1, <2>2, <3>1, <3>2 DEF Reaching, InRing, InHand
  <2> QED
    BY <2>1, <2>3, <2>4 DEF ReachInv
<1>10. CASE UNCHANGED sourceVars
  BY <1>1, <1>10 DEF sourceVars, source, delivery, collecting, history
<1> QED
  BY <1>2, <1>3, <1>4, <1>5, <1>6, <1>7, <1>8, <1>9, <1>10 DEF SourceNext

\* A summary is "ok" when nothing was lost; what it lacks was on its way, or dark.
LEMMA NextComplete ==
    /\ Assumption /\ SourceInv /\ DeliveryInv /\ CallInv /\ ReachInv /\ OkIsComplete
    /\ [SourceNext]_sourceVars /\ CallInv'
    => OkIsComplete'
<1> SUFFICES ASSUME Assumption, SourceInv, DeliveryInv, CallInv, ReachInv, OkIsComplete,
                    [SourceNext]_sourceVars, CallInv', NEW q \in Runs, summary'[q] = "ok"
             PROVE  due'[q] \subseteq got'[q] \cup late'[q] \cup dark' /\ q \notin blind'
  BY DEF OkIsComplete
<1> DEFINE Explained == due'[q] \subseteq got'[q] \cup late'[q] \cup dark'
<1>1. q \notin blind'
  BY DEF CallInv
<1>2. ASSUME summary[q] = "ok", due'[q] = due[q], got'[q] = got[q], late'[q] = late[q],
             dark \subseteq dark'
      PROVE  Explained
  BY <1>2 DEF OkIsComplete
<1>3. ASSUME NEW g \in Groups, Emit(g) PROVE Explained
  <2>1. summary[q] = "ok" /\ call[q] # "running"
    BY <1>3 DEF Emit, collecting, CallInv
  <2>2. due'[q] = due[q] /\ got' = got /\ late' = late /\ dark \subseteq dark'
    BY <1>3, <2>1 DEF Emit, CallInv
  <2> QED
    BY <1>2, <2>1, <2>2
<1>4. ASSUME Poll \/ PollerDies \/ UNCHANGED sourceVars PROVE Explained
  <2>1. summary' = summary /\ due' = due /\ got' = got /\ late' = late /\ dark' = dark
    BY <1>4 DEF Poll, PollerDies, sourceVars, collecting, history
  <2>2. summary[q] = "ok" /\ due'[q] = due[q] /\ got'[q] = got[q] /\ late'[q] = late[q]
    BY <2>1
  <2> QED
    BY <1>2, <2>1, <2>2
<1>5. ASSUME NEW r \in Runs, Deliver(r) \/ Attach(r) \/ Begin(r) \/ Finalize(r)
      PROVE  Explained
  BY <1>2, <1>5 DEF Deliver, Attach, Begin, Finalize, collecting, history
<1>6. ASSUME NEW r \in Runs, FinishBegin(r) \/ FinishFails(r) PROVE Explained
  <2>1. summary[q] = "ok"
    BY <1>6 DEF FinishBegin, FinishFails, CallInv
  <2> QED
    BY <1>2, <1>6, <2>1 DEF FinishBegin, FinishFails, history
<1>7. ASSUME NEW r \in Runs, FinishSlice(r) PROVE Explained
  <2>1. CASE q # r
    BY <1>2, <1>7, <2>1 DEF FinishSlice, CallInv
  <2>2. CASE q = r
    <3>1. state[r] = "active" /\ got'[r] = buffer[r] /\ late'[r] = OnTheWay(r)
          /\ due' = due /\ dark' = dark
      BY <1>7 DEF FinishSlice, CallInv
    <3>2. PICK quality \in Quality(r) : summary' = [summary EXCEPT ![r] = quality]
      BY <1>7 DEF FinishSlice
    <3>3. losses <= lossAtStart[r]
      BY <2>2, <3>2 DEF Quality, CallInv, DeliveryInv
    <3>4. ASSUME NEW e \in due[r] PROVE e \in buffer[r] \cup OnTheWay(r) \cup dark
      <4>1. CASE InRing(r, e) \/ InHand(r, e)
        BY <4>1 DEF InRing, InHand, OnTheWay, DeliveryInv
      <4>2. CASE e \in buffer[r] \/ e \in dark
        BY <4>2
      <4> QED
        BY <3>1, <3>3, <4>1, <4>2 DEF ReachInv, Reaching
    <3> QED
      BY <2>2, <3>1, <3>4
  <2> QED
    BY <2>1, <2>2
<1>8. Explained
  BY <1>3, <1>4, <1>5, <1>6, <1>7 DEF SourceNext
<1> QED
  BY <1>1, <1>8

-----------------------------------------------------------------------------

\* The kernel filter holds nothing beyond the leases, no cgroup has more references
\* than leases, the routes lead to leases, and a released buffer stays empty: for all
\* scopes, and through acquisitions and extensions that fail half-way.
THEOREM FilterStaysLeased == Assumption => (SourceSpec => []FilterIsLeased)
<1> SUFFICES ASSUME Assumption PROVE SourceSpec => []FilterIsLeased
  OBVIOUS
<1> DEFINE Inv == SourceInv /\ DeliveryInv /\ CallInv
<1>1. SourceInit => Inv
  BY InitSource, InitCalls
<1>2. Inv /\ [SourceNext]_sourceVars => Inv'
  BY NextSourceInv, NextDeliveryInv, NextCallInv
<1>3. Inv => FilterIsLeased
  BY DEF SourceInv, FilterIsLeased, Holders
<1> QED
  BY <1>1, <1>2, <1>3, PTL DEF SourceSpec

\* Of a cgroup that was never overdrawn, the filter lets through what the leases hold,
\* for all scopes and whatever acquisition or extension failed half-way.
THEOREM FilterIsExact == Assumption => (SourceSpec => []FilterMatchesLeases)
<1> SUFFICES ASSUME Assumption PROVE SourceSpec => []FilterMatchesLeases
  OBVIOUS
<1> DEFINE Inv == SourceInv /\ CountedInv /\ DeliveryInv /\ CallInv
<1>1. SourceInit => Inv
  BY InitSource, InitCalls
<1>2. Inv /\ [SourceNext]_sourceVars => Inv'
  BY NextSourceInv, NextCountedInv, NextDeliveryInv, NextCallInv
<1>3. Inv => FilterMatchesLeases
  BY DEF SourceInv, CountedInv, FilterMatchesLeases, FilterIsLeased, Holders
<1> QED
  BY <1>1, <1>2, <1>3, PTL DEF SourceSpec

\* An "ok" summary was made of every event of its command but those that were still on
\* their way when the 30 ms were over and those of an overdrawn cgroup.
THEOREM OkSummariesAreComplete == Assumption => (SourceSpec => []OkIsComplete)
<1> SUFFICES ASSUME Assumption PROVE SourceSpec => []OkIsComplete
  OBVIOUS
<1> DEFINE Inv == SourceInv /\ CountedInv /\ DeliveryInv /\ CallInv /\ ReachInv /\ OkIsComplete
<1>1. SourceInit => Inv
  BY InitSource, InitCalls
<1>2. Inv /\ [SourceNext]_sourceVars => Inv'
  BY NextSourceInv, NextCountedInv, NextDeliveryInv, NextCallInv, NextReachInv, NextComplete
<1>3. Inv => OkIsComplete
  OBVIOUS
<1> QED
  BY <1>1, <1>2, <1>3, PTL DEF SourceSpec

-----------------------------------------------------------------------------
(* The observer of docker execs: what a call has is consumed, and one has it.    *)

\* What somebody has is consumed, whether its record is still kept or not, and
\* nobody else has it unless its completion took the record of another call.
ObserverInv ==
    /\ watched \subseteq Calls
    /\ matched = [c \in Calls |-> matched[c]]
    /\ inferred = [c \in Calls |-> inferred[c]]
    /\ \A c \in Calls, x \in DockerExecs : Observer!Has(c, x) => x \in consumed
    /\ Observer!ExecIsOneCalls

\* A call that is given an exec which nobody has, or whose completion strayed, keeps
\* the others' apart.
LEMMA GivenFree ==
    ASSUME ObserverInv, NEW c \in Calls, NEW x, x \notin consumed \/ c \in strayed',
           watched' \subseteq Calls,
           matched' = [d \in Calls |-> matched'[d]],
           inferred' = [d \in Calls |-> inferred'[d]],
           consumed \subseteq consumed', x \in consumed', strayed \subseteq strayed',
           \A d \in Calls, y \in DockerExecs : Observer!Has(d, y)' => Observer!Has(d, y)
               \/ (d = c /\ y = x)
    PROVE  ObserverInv'
<1>1. \A d \in Calls, y \in DockerExecs : Observer!Has(d, y)' => y \in consumed'
  BY DEF ObserverInv
<1>2. ASSUME NEW y \in DockerExecs, NEW d \in Calls \ strayed', NEW e \in Calls \ strayed',
             Observer!Has(d, y)', Observer!Has(e, y)'
      PROVE  d = e
  <2>1. CASE y = x /\ x \notin consumed
    BY <1>2, <2>1 DEF ObserverInv
  <2>2. CASE y # x \/ c \in strayed'
    BY <1>2, <2>2 DEF ObserverInv, Observer!ExecIsOneCalls
  <2> QED
    BY <2>1, <2>2
<1> QED
  BY <1>1, <1>2 DEF ObserverInv, Observer!ExecIsOneCalls

\* A step that gives nobody anything.
LEMMA GivenNothing ==
    ASSUME ObserverInv,
           watched' \subseteq Calls,
           matched' = [d \in Calls |-> matched'[d]],
           inferred' = [d \in Calls |-> inferred'[d]],
           consumed' = consumed, strayed \subseteq strayed',
           \A d \in Calls, y \in DockerExecs : Observer!Has(d, y)' => Observer!Has(d, y)
    PROVE  ObserverInv'
<1>1. \A d \in Calls, y \in DockerExecs : Observer!Has(d, y)' => y \in consumed'
  BY DEF ObserverInv
<1>2. Observer!ExecIsOneCalls'
  BY DEF ObserverInv, Observer!ExecIsOneCalls
<1> QED
  BY <1>1, <1>2 DEF ObserverInv

\* _match_record and _match_active_for_record take an exec that is free.
LEMMA TakenFree ==
    ASSUME ObserverInv, NEW c \in Calls, NEW x, x \notin consumed, Observer!Take(c, x),
           UNCHANGED <<bound, inferred, strayed>>, watched' \subseteq Calls
    PROVE  ObserverInv'
<1>1. matched' = [d \in Calls |-> matched'[d]] /\ \A d \in Calls : d # c =>
          matched'[d] = matched[d]
  BY DEF Observer!Take, ObserverInv
<1>2. ASSUME NEW d \in Calls, NEW y \in DockerExecs, Observer!Has(d, y)'
      PROVE Observer!Has(d, y) \/ (d = c /\ y = x)
  <2>1. matched'[c] = x
    BY DEF Observer!Take, ObserverInv
  <2> QED
    BY <1>1, <1>2, <2>1 DEF Observer!Take, Observer!Has
<1>3. /\ inferred' = [d \in Calls |-> inferred'[d]] /\ strayed \subseteq strayed'
      /\ consumed \subseteq consumed' /\ x \in consumed'
  BY DEF Observer!Take, ObserverInv
<1> QED
  BY <1>1, <1>2, <1>3, GivenFree

\* A completion is told the exec of its own record, or a free one; or it strays.
LEMMA InferStep ==
    ASSUME Observer!ObserverAssumption, ObserverInv, NEW c \in Calls, Observer!Infer(c)
    PROVE  ObserverInv'
<1>0. Observer!None \notin DockerExecs /\ "diff" \notin DockerExecs
  BY DEF Observer!ObserverAssumption
<1>1. PICK d \in Observer!Popped(c) :
        /\ watched' = watched \ {d}
        /\ matched' = [matched EXCEPT ![d] = Observer!None]
        /\ strayed' = strayed \cup ({c} \ {d})
        /\ \/ /\ matched[d] # Observer!None
              /\ inferred' = [inferred EXCEPT ![c] = @ \cup {matched[d]}]
              /\ consumed' = consumed
           \/ \E x \in Observer!Candidates(d) :
                 /\ inferred' = [inferred EXCEPT ![c] = @ \cup {x}]
                 /\ consumed' = consumed \cup {x}
           \/ /\ inferred' = [inferred EXCEPT ![c] = @ \cup
                                                     (IF d \in seen THEN {"diff"} ELSE {})]
              /\ consumed' = consumed
  BY DEF Observer!Infer
<1>2. d \in Calls
  BY <1>1 DEF ObserverInv, Observer!Popped, Observer!Alike
<1>3. /\ watched' \subseteq Calls /\ strayed \subseteq strayed' /\ UNCHANGED <<telling, bound>>
      /\ matched' = [e \in Calls |-> matched'[e]]
      /\ inferred' = [e \in Calls |-> inferred'[e]]
      /\ \A e \in Calls : matched'[e] \in {matched[e], Observer!None}
  BY <1>1, <1>2 DEF Observer!Infer, ObserverInv
<1>4. ASSUME NEW x, inferred' = [inferred EXCEPT ![c] = @ \cup {x}],
             NEW e \in Calls, NEW y \in DockerExecs, Observer!Has(e, y)'
      PROVE  Observer!Has(e, y) \/ (e = c /\ y = x)
  BY <1>0, <1>3, <1>4 DEF Observer!Has, ObserverInv
<1>5. ASSUME NEW x, x = matched[d], consumed' = consumed,
             inferred' = [inferred EXCEPT ![c] = @ \cup {x}]
      PROVE  ObserverInv'
  <2>0. \A e \in Calls, y \in DockerExecs : Observer!Has(e, y)' => Observer!Has(e, y)
            \/ (e = c /\ y = x)
    BY <1>4, <1>5
  <2>1. CASE x \notin DockerExecs \/ c = d
    <3>1. x \in DockerExecs => Observer!Has(c, x)
      BY <1>5, <2>1 DEF Observer!Has
    <3>2. \A e \in Calls, y \in DockerExecs : Observer!Has(e, y)' => Observer!Has(e, y)
      BY <2>0, <3>1
    <3> QED
      BY <1>3, <1>5, <3>2, GivenNothing
  <2>2. CASE x \in DockerExecs /\ c # d
    <3>1. c \in strayed' /\ x \in consumed' /\ consumed \subseteq consumed'
      BY <1>1, <1>2, <1>5, <2>2 DEF ObserverInv, Observer!Has
    <3> QED
      BY <1>3, <2>0, <3>1, GivenFree
  <2> QED
    BY <2>1, <2>2
<1>6. ASSUME NEW x \in Observer!Candidates(d), consumed' = consumed \cup {x},
             inferred' = [inferred EXCEPT ![c] = @ \cup {x}]
      PROVE  ObserverInv'
  <2>1. x \notin consumed
    BY DEF Observer!Candidates
  <2>2. \A e \in Calls, y \in DockerExecs : Observer!Has(e, y)' => Observer!Has(e, y)
            \/ (e = c /\ y = x)
    BY <1>4, <1>6
  <2> QED
    BY <1>3, <1>6, <2>1, <2>2, GivenFree
<1>7. CASE inferred' = [inferred EXCEPT ![c] = @ \cup (IF d \in seen THEN {"diff"} ELSE {})]
           /\ consumed' = consumed
  <2>1. \A e \in Calls, y \in DockerExecs : Observer!Has(e, y)' => Observer!Has(e, y)
    BY <1>0, <1>3, <1>7 DEF Observer!Has, ObserverInv
  <2> QED
    BY <1>3, <1>7, <2>1, GivenNothing
<1> QED
  BY <1>1, <1>5, <1>6, <1>7

\* Every step of the observer.
LEMMA ObserverInvStep ==
    ASSUME Observer!ObserverAssumption, ObserverInv, [Observer!Next]_(Observer!vars)
    PROVE  ObserverInv'
<1>0. Observer!None \notin DockerExecs /\ "diff" \notin DockerExecs
  BY DEF Observer!ObserverAssumption
<1>1. ASSUME NEW c \in Calls, Observer!Begin(c) PROVE ObserverInv'
  <2>0. watched' \subseteq Calls /\ UNCHANGED <<bound, inferred, strayed>>
    BY <1>1 DEF Observer!Begin, ObserverInv
  <2>1. CASE UNCHANGED <<matched, consumed, telling>>
    BY <2>0, <2>1, GivenNothing DEF Observer!Has, ObserverInv
  <2>2. ASSUME NEW x \in Observer!Candidates(c), Observer!Take(c, x) PROVE ObserverInv'
    BY <2>0, <2>2, TakenFree DEF Observer!Candidates
  <2> QED
    BY <1>1, <2>1, <2>2 DEF Observer!Begin
<1>2. ASSUME NEW x \in DockerExecs, Observer!RecordStart(x) PROVE ObserverInv'
  <2>1. CASE UNCHANGED <<matched, consumed, telling>>
    BY <1>2, <2>1, GivenNothing DEF Observer!RecordStart, Observer!Has, ObserverInv
  <2>2. ASSUME NEW c \in Observer!Waiting(x), Observer!Take(c, x), x \notin consumed
        PROVE ObserverInv'
    BY <1>2, <2>2, TakenFree DEF Observer!RecordStart, Observer!Waiting, ObserverInv
  <2> QED
    BY <1>2, <2>1, <2>2 DEF Observer!RecordStart
<1>3. ASSUME NEW c \in Calls, NEW x \in DockerExecs, NEW accepted \in BOOLEAN,
             Observer!Tell(c, x, accepted)
      PROVE  ObserverInv'
  <2>1. matched' = [d \in Calls |-> matched'[d]]
    BY <1>3 DEF Observer!Tell, ObserverInv
  <2>2. \A d \in Calls : matched'[d] \in {matched[d], Observer!None}
    BY <1>3 DEF Observer!Tell, ObserverInv
  <2>3. ASSUME NEW d \in Calls, NEW y \in DockerExecs, Observer!Has(d, y)'
        PROVE Observer!Has(d, y)
    BY <1>0, <1>3, <2>2, <2>3 DEF Observer!Tell, Observer!Has
  <2> QED
    BY <1>3, <2>1, <2>3, GivenNothing DEF Observer!Tell, ObserverInv
<1>4. ASSUME NEW c \in Calls, Observer!Infer(c) PROVE ObserverInv'
  BY <1>4, InferStep
<1>5. ASSUME UNCHANGED <<watched, matched, inferred, consumed, telling, bound, strayed>>
      PROVE ObserverInv'
  BY <1>5, GivenNothing DEF Observer!Has, ObserverInv
<1>6. CASE (\E c \in Calls : Observer!Appear(c)) \/ (\E x \in DockerExecs :
          Observer!Event(x)) \/ UNCHANGED Observer!vars
  BY <1>5, <1>6 DEF Observer!Appear, Observer!Event, Observer!vars
<1> QED
  BY <1>1, <1>2, <1>3, <1>4, <1>6 DEF Observer!Next

\* The invariant of the observer.
LEMMA ObserverInvAlways == Observer!ObserverAssumption => (Observer!Spec => []ObserverInv)
<1> SUFFICES ASSUME Observer!ObserverAssumption PROVE Observer!Spec => []ObserverInv
  OBVIOUS
<1>1. Observer!Init => ObserverInv
  BY DEF Observer!ObserverAssumption, Observer!Init, ObserverInv, Observer!ExecIsOneCalls,
     Observer!Has, Observer!None
<1>2. ObserverInv /\ [Observer!Next]_(Observer!vars) => ObserverInv'
  BY ObserverInvStep
<1> QED
  BY <1>1, <1>2, PTL DEF Observer!Spec

\* The process of one docker exec is measured for one call only, unless a completion
\* was told what another call's record held (docker_exec.py).
THEOREM ExecsAreOneCalls ==
    Observer!ObserverAssumption => (Observer!Spec => []ExecIsOneCalls)
<1> SUFFICES ASSUME Observer!ObserverAssumption PROVE Observer!Spec => []ExecIsOneCalls
  OBVIOUS
<1>1. ObserverInv => Observer!ExecIsOneCalls
  BY DEF ObserverInv
<1> QED
  BY <1>1, ObserverInvAlways, PTL DEF ExecIsOneCalls

-----------------------------------------------------------------------------
(* The scope of a managed execution, from the gate to the completion.           *)

\* Where a launcher runs, and what names it there.
Home == IF place = "sandbox" THEN "box" ELSE "session"
Exclusive == [pid |-> Scoping!Root, path |-> Scoping!Own, by |-> "exclusive"]
\* The scopes that cover a process which was not moved.
Trues == {[pid |-> Scoping!Root, path |-> Home, by |-> "trusted"], Scoping!PidScope}
Told == {[pid |-> p, path |-> Home, by |-> "launcher"] : p \in {Scoping!Root, Scoping!Stranger}}
Guessed == [pid |-> Scoping!Root, path |-> Scoping!None, by |-> "inferred"]
Boxes == IF place = "sandbox" THEN {Scoping!NoScope, Scoping!BoxScope} ELSE {Scoping!NoScope}

PlaceInv ==
    /\ place \in {"sandbox", "host"} /\ (sandbox => place = "sandbox")
    /\ stage \in {"gated", "starting", "released", "refused"}
    /\ DOMAIN cgroups = {Scoping!Root, Scoping!Kid, Scoping!Stranger}
    /\ cgroups[Scoping!Root] \in {Home, Scoping!Own, Scoping!None}
    /\ cgroups[Scoping!Kid] \in {Home, Scoping!Own, Scoping!None}
    /\ cgroups[Scoping!Stranger] \in {"elsewhere", Scoping!Own}
    /\ Scoping!Read => cgroups[Scoping!Stranger] = "elsewhere"

\* Nothing is known before /started.
GatedInv ==
    stage = "gated" =>
        /\ request = Scoping!NoRequest /\ scope = Scoping!NoScope /\ label = Scoping!NoScope
        /\ monitor \in Boxes
        /\ cgroups[Scoping!Root] # Scoping!Own /\ cgroups[Scoping!Kid] = Scoping!None
        /\ cgroups[Scoping!Stranger] = "elsewhere"

\* An execution that was moved has one scope everywhere, another is where it began.
ReadInv ==
    Scoping!Read =>
        \/ /\ scope = Exclusive /\ monitor = Exclusive /\ label \in {Scoping!NoScope, Exclusive}
           /\ cgroups[Scoping!Root] # Home /\ cgroups[Scoping!Kid] # Home
        \/ /\ scope \in Trues \cup Told \cup {Scoping!NoScope}
           /\ scope = Scoping!NoScope => stage = "refused"
           /\ monitor \in Trues \cup Told \cup Boxes
           /\ label \in Trues \cup Told \cup Boxes \cup {Guessed}
           /\ cgroups[Scoping!Root] # Scoping!Own

OpenedInv ==
    /\ stage = "released" /\ required => collector # Scoping!None
    /\ stage \in {"starting", "released"} /\ Scoping!Read /\ request.gate /\ request.strict =>
          scope = Exclusive

ScopeInv == PlaceInv /\ GatedInv /\ ReadInv /\ OpenedInv

-----------------------------------------------------------------------------
\* The claim.
LEMMA ScopeInvInit == Scoping!Init => ScopeInv
<1> SUFFICES ASSUME Scoping!Init PROVE ScopeInv
  OBVIOUS
<1>1. /\ request.identity = Scoping!None /\ ~Scoping!Read
  BY DEF Scoping!Init, Scoping!NoRequest, Scoping!Read, Scoping!None
<1>2. /\ cgroups[Scoping!Root] = Home /\ cgroups[Scoping!Kid] = Scoping!None
      /\ cgroups[Scoping!Stranger] = "elsewhere"
      /\ DOMAIN cgroups = {Scoping!Root, Scoping!Kid, Scoping!Stranger}
  BY DEF Scoping!Init, Home, Scoping!Root, Scoping!Kid, Scoping!Stranger, Scoping!Tree,
     Scoping!None
<1>3. PlaceInv
  BY <1>1, <1>2 DEF Scoping!Init, PlaceInv
<1>4. GatedInv
  BY <1>2 DEF Scoping!Init, GatedInv, Home, Boxes, Scoping!Own, Scoping!None
<1> QED
  BY <1>1, <1>3, <1>4 DEF Scoping!Init, ScopeInv, ReadInv, OpenedInv

\* What /started finds of an execution that can name its process.
LEMMA StartedKeeps ==
    ASSUME ScopeInv, NEW q \in Scoping!Requests, Scoping!Receives(q), ~Scoping!Unverified(q),
           cgroups' = cgroups \/ (q.gate /\ Scoping!Resolved(q) # Scoping!None
               /\ cgroups' = Scoping!MovedInto(Scoping!Own, Scoping!Resolved(q))),
           stage' \in {"starting", "released", "refused"}
    PROVE  /\ PlaceInv' /\ GatedInv'
           /\ q.identity = "full" => Scoping!Resolved(q) = Scoping!Root
                  /\ Scoping!Trusted(q) = Scoping!Root /\ Scoping!Alive(Scoping!Root)
<1>1. /\ request' = q /\ stage = "gated" /\ UNCHANGED <<place, sandbox>>
  BY DEF Scoping!Receives
<1>2. q.identity = "full" => Scoping!Resolved(q) = Scoping!Root
          /\ Scoping!Trusted(q) = Scoping!Root /\ Scoping!Alive(Scoping!Root)
  BY DEF Scoping!Unverified, Scoping!Resolved, Scoping!Trusted, Scoping!None, Scoping!Root
<1>3. Scoping!Resolved(q) \in {Scoping!Root, Scoping!Stranger, Scoping!None}
  BY DEF Scoping!Resolved
<1>4. GatedInv'
  BY <1>1 DEF GatedInv
<1>5. PlaceInv'
  BY <1>1, <1>2, <1>3 DEF ScopeInv, PlaceInv, GatedInv, Scoping!MovedInto, Home, Scoping!Read,
     Scoping!Root, Scoping!Kid, Scoping!Stranger, Scoping!None, Scoping!Own
<1> QED
  BY <1>2, <1>4, <1>5

\* The end of the handler for an execution that was not moved.
LEMMA SettleStays ==
    ASSUME ScopeInv, NEW q \in Scoping!Requests, Scoping!Receives(q), ~Scoping!Unverified(q),
           cgroups' = cgroups,
           NEW first \in {Scoping!Derived, Scoping!Claimed(q), Scoping!NoScope},
               NEW gateFailed \in BOOLEAN,
           Scoping!Settle(q, first, gateFailed), q.gate => ~q.strict
    PROVE  ScopeInv'
<1>1. /\ request' = q /\ stage = "gated"
      /\ UNCHANGED <<place, required, sandbox, collector, label>>
  BY DEF Scoping!Receives
<1>2. /\ stage' \in {"starting", "released", "refused"}
      /\ stage' = "released" => ~required
  BY DEF Scoping!Settle
<1>3. /\ PlaceInv' /\ GatedInv'
      /\ q.identity = "full" => Scoping!Trusted(q) = Scoping!Root /\ Scoping!Alive(Scoping!Root)
  BY <1>2, StartedKeeps
<1>4. OpenedInv'
  BY <1>1, <1>2 DEF OpenedInv, Scoping!Read
<1>5. ASSUME q.identity = "full" PROVE ReadInv'
  <2>1. cgroups[Scoping!Root] = Home
    BY <1>1, <1>3, <1>5 DEF ScopeInv, PlaceInv, GatedInv, Scoping!Alive
  <2>2. PICK s \in Scoping!UnlessTrusted(q, first) : scope' = s /\ monitor' = Scoping!Bound(s)
    BY DEF Scoping!Settle
  <2>3. q.path \in {Scoping!None, "namespaced", "host"}
    BY DEF Scoping!Requests
  <2>4. Scoping!Derived \in Trues /\ Scoping!PidScope \in Trues
    BY <2>1 DEF Trues, Scoping!Derived, Scoping!HostPath
  <2>5. first \in Trues \cup Told \/ ~Scoping!Usable(first)
    BY <2>1, <2>3, <2>4 DEF Scoping!Claimed, Told, Scoping!Usable, Scoping!NoScope
  <2>6. s \in Trues \cup Told
    BY <1>3, <1>5, <2>2, <2>4, <2>5 DEF Scoping!UnlessTrusted, Scoping!Root, Scoping!None
  <2>7. monitor \in Boxes /\ label = Scoping!NoScope
    BY <1>1 DEF ScopeInv, GatedInv
  <2>8. Scoping!Bound(s) \in Trues \cup Told \cup Boxes
    BY <2>6, <2>7 DEF Scoping!Bound, Trues, Told, Boxes, ScopeInv, PlaceInv
  <2>9. Home' = Home /\ Trues' = Trues /\ Told' = Told /\ Boxes' = Boxes
    BY <1>1 DEF Home, Trues, Told, Boxes
  <2>10. s # Scoping!NoScope /\ cgroups'[Scoping!Root] # Scoping!Own
             /\ Scoping!NoScope \in Boxes
    BY <2>1, <2>6 DEF Trues, Told, Scoping!NoScope, Scoping!PidScope, Home, Scoping!Own, Boxes,
       Scoping!Root, Scoping!None
  <2> QED
    BY <1>1, <2>2, <2>6, <2>7, <2>8, <2>9, <2>10 DEF ReadInv
<1>6. ReadInv'
  BY <1>1, <1>5 DEF ReadInv, Scoping!Read
<1> QED
  BY <1>3, <1>4, <1>6 DEF ScopeInv

\* /started.
LEMMA StartedStep ==
    ASSUME ScopeInv, NEW q \in Scoping!Requests,
           \/ Scoping!StartedUnverified(q) \/ Scoping!StartedOwn(q)
           \/ Scoping!StartedUndelegated(q) \/ Scoping!StartedUngated(q)
    PROVE  ScopeInv'
<1>1. ASSUME Scoping!Receives(q), Scoping!Refuses, cgroups' = cgroups PROVE ScopeInv'
  <2>1. /\ request' = q /\ stage = "gated" /\ stage' = "refused" /\ scope' = Scoping!NoScope
        /\ UNCHANGED <<place, required, sandbox, collector, label, monitor, cgroups>>
    BY <1>1 DEF Scoping!Receives, Scoping!Refuses
  <2>2. PlaceInv' /\ GatedInv' /\ OpenedInv'
    BY <2>1 DEF ScopeInv, PlaceInv, GatedInv, OpenedInv, Home, Scoping!Read
  <2>3. ReadInv'
    BY <2>1 DEF ScopeInv, GatedInv, ReadInv, Boxes, Trues, Told, Home
  <2> QED
    BY <2>2, <2>3 DEF ScopeInv
<1>2. CASE Scoping!StartedUnverified(q)
  BY <1>1, <1>2 DEF Scoping!StartedUnverified
<1>3. CASE Scoping!StartedOwn(q)
  <2> DEFINE own == [pid |-> Scoping!Resolved(q), path |-> Scoping!Own, by |-> "exclusive"]
  <2>1. /\ request' = q /\ stage = "gated"
        /\ UNCHANGED <<place, required, sandbox, collector, label>>
        /\ Scoping!Settle(q, own, FALSE)
        /\ cgroups' = Scoping!MovedInto(Scoping!Own, Scoping!Resolved(q))
    BY <1>3 DEF Scoping!StartedOwn, Scoping!Receives
  <2>2. /\ stage' \in {"starting", "released", "refused"}
        /\ stage' = "released" => ~required
    BY <2>1 DEF Scoping!Settle
  <2>3. /\ PlaceInv' /\ GatedInv'
        /\ q.identity = "full" => Scoping!Resolved(q) = Scoping!Root
    BY <1>3, <2>2, StartedKeeps DEF Scoping!StartedOwn
  <2>4. Scoping!Usable(own)
    BY DEF Scoping!Usable, Scoping!Own, Scoping!None
  <2>5. scope' = own /\ monitor' = Scoping!Bound(own)
    BY <2>1, <2>4 DEF Scoping!Settle, Scoping!UnlessTrusted
  <2>6. Scoping!Bound(own) = own
    BY <2>4 DEF Scoping!Bound, Scoping!NoScope, Scoping!Own, Scoping!None
  <2>7. ASSUME q.identity = "full"
        PROVE  scope' = Exclusive /\ monitor' = Exclusive
            /\ cgroups'[Scoping!Root] = Scoping!Own /\ cgroups'[Scoping!Kid] = Scoping!None
    BY <2>1, <2>3, <2>5, <2>6, <2>7 DEF Exclusive, Scoping!MovedInto, ScopeInv, PlaceInv,
       GatedInv, Scoping!Root, Scoping!Kid
  <2>8. label' = Scoping!NoScope
    BY <2>1 DEF ScopeInv, GatedInv
  <2>9. ReadInv' /\ OpenedInv'
    BY <2>1, <2>2, <2>7, <2>8 DEF ReadInv, OpenedInv, Scoping!Read, Home, Scoping!Own,
       Scoping!None
  <2> QED
    BY <2>3, <2>9 DEF ScopeInv
<1>4. CASE Scoping!StartedUndelegated(q)
  BY <1>1, <1>4, SettleStays DEF Scoping!StartedUndelegated
<1>5. CASE Scoping!StartedUngated(q)
  BY <1>5, SettleStays DEF Scoping!StartedUngated
<1> QED
  BY <1>2, <1>3, <1>4, <1>5

\* The collector, the sandbox and the processes.
LEMMA AroundStep ==
    ASSUME ScopeInv, Scoping!StartEnds \/ Scoping!Discover \/ Scoping!Fork
               \/ \E p \in Scoping!Tree : Scoping!Exit(p)
    PROVE  ScopeInv'
<1>1. CASE Scoping!StartEnds
  <2>1. /\ stage # "starting" => stage' = stage
        /\ stage = "starting" => stage' \in {"released", "refused"}
        /\ UNCHANGED <<place, required, cgroups, request, sandbox, scope, monitor, label>>
    BY <1>1 DEF Scoping!StartEnds, ScopeInv, PlaceInv
  <2> QED
    BY <1>1, <2>1 DEF Scoping!StartEnds, ScopeInv, PlaceInv, GatedInv, ReadInv, OpenedInv,
       Scoping!Read, Home,
       Trues, Told, Boxes, Scoping!Root, Scoping!None
<1>2. CASE Scoping!Discover
  BY <1>2 DEF Scoping!Discover, ScopeInv, PlaceInv, GatedInv, ReadInv, OpenedInv, Scoping!Read,
     Home,
     Trues, Told, Boxes, Exclusive, Scoping!PidScope, Scoping!NoScope, Scoping!BoxScope,
         Scoping!Authoritative, Scoping!None, Scoping!Own
<1>3. CASE Scoping!Fork \/ \E p \in Scoping!Tree : Scoping!Exit(p)
  BY <1>3 DEF Scoping!Fork, Scoping!Exit, ScopeInv, PlaceInv, GatedInv, ReadInv, OpenedInv,
     Scoping!Read, Home,
     Trues, Told, Boxes, Scoping!Tree, Scoping!Alive, Scoping!Root, Scoping!Kid,
         Scoping!Stranger, Scoping!None, Scoping!Own
<1> QED
  BY <1>1, <1>2, <1>3

\* The completion.
LEMMA CompleteStep ==
    ASSUME ScopeInv, NEW s \in Scoping!Supplied, Scoping!Complete(s)
    PROVE  ScopeInv'
<1>1. /\ stage = "released" /\ label' = Scoping!InSandbox(Scoping!Best(s))
      /\ UNCHANGED <<place, required, cgroups, stage, request, sandbox, scope, monitor,
             collector>>
  BY DEF Scoping!Complete
<1>2. PlaceInv' /\ GatedInv' /\ OpenedInv'
  BY <1>1 DEF ScopeInv, PlaceInv, GatedInv, OpenedInv, Home, Scoping!Read
<1>3. ASSUME Scoping!Read PROVE ReadInv'
  <2>1. CASE scope = Exclusive
    <3>1. label' = Exclusive
      BY <1>1, <2>1 DEF Scoping!Best, Scoping!InSandbox, Scoping!Authoritative, Exclusive
    <3> QED
      BY <1>1, <1>3, <2>1, <3>1 DEF ScopeInv, ReadInv, Home, Exclusive, Trues, Told,
         Scoping!PidScope, Scoping!NoScope, Boxes
  <2>2. CASE scope # Exclusive
    <3>1. /\ scope \in Trues \cup Told /\ scope # Scoping!NoScope
          /\ cgroups[Scoping!Root] # Scoping!Own
          /\ monitor \in Trues \cup Told \cup Boxes
      BY <1>1, <1>3, <2>2 DEF ScopeInv, ReadInv
    <3>2. s \in Boxes \cup {Guessed}
      BY DEF Scoping!Supplied, Boxes, Guessed
    <3>3. s = Scoping!NoScope /\ ~Scoping!Authoritative(scope) => Scoping!Usable(scope)
      BY <3>1 DEF Trues, Told, Scoping!Authoritative, Scoping!Usable, Scoping!PidScope, Home,
         Scoping!None
    <3>4. Scoping!Best(s) \in Trues \cup Told \cup Boxes \cup {Guessed}
      BY <3>1, <3>2, <3>3 DEF Scoping!Best
    <3>5. sandbox => Scoping!BoxScope \in Boxes
      BY DEF Boxes, ScopeInv, PlaceInv
    <3>6. label' \in Trues \cup Told \cup Boxes \cup {Guessed}
      BY <1>1, <3>4, <3>5 DEF Scoping!InSandbox
    <3>7. Home' = Home /\ Trues' = Trues /\ Told' = Told /\ Boxes' = Boxes
      BY <1>1 DEF Home, Trues, Told, Boxes
    <3> QED
      BY <1>1, <3>1, <3>6, <3>7 DEF ReadInv
  <2> QED
    BY <2>1, <2>2
<1> QED
  BY <1>1, <1>2, <1>3 DEF ScopeInv, ReadInv, Scoping!Read

\* The invariant of scopes.
LEMMA ScopeInvAlways == Scoping!Spec => []ScopeInv
<1>1. Scoping!Init => ScopeInv
  BY ScopeInvInit
<1>2. ScopeInv /\ [Scoping!Next]_(Scoping!vars) => ScopeInv'
  <2>1. ASSUME ScopeInv, UNCHANGED Scoping!vars PROVE ScopeInv'
    BY <2>1 DEF Scoping!vars, ScopeInv, PlaceInv, GatedInv, ReadInv, OpenedInv, Scoping!Read,
       Home, Trues, Told, Boxes
  <2> QED
    BY <2>1, StartedStep, AroundStep, CompleteStep DEF Scoping!Next
<1> QED
  BY <1>1, <1>2, PTL DEF Scoping!Spec

\* Whose resources an execution's are (api/app.py): each scope of it covers its own
\* process and not the one with its number, and a gate opens over what was required.
THEOREM ScopesAreTheirOwn == Scoping!Spec => []ScopeIsItsOwn
<1>1. ScopeInv => Scoping!ScopeIsItsOwn
  <2> SUFFICES ASSUME ScopeInv PROVE Scoping!ScopeCoversItsOwn /\ Scoping!GateIsMet
    BY DEF Scoping!ScopeIsItsOwn
  <2>1. Scoping!GateIsMet
    BY DEF Scoping!GateIsMet, ScopeInv, OpenedInv, Exclusive
  <2>2. ASSUME Scoping!Read, NEW s \in Scoping!Scopes
        PROVE  /\ Scoping!Alive(Scoping!Root) => Scoping!Root \in Scoping!Measured(s)
               /\ Scoping!Stranger \notin Scoping!Measured(s)
               /\ s.by = "exclusive" /\ Scoping!Alive(Scoping!Kid) =>
                      Scoping!Kid \in Scoping!Measured(s)
    <3>1. cgroups[Scoping!Stranger] = "elsewhere" /\ cgroups[Scoping!Root] \in {Home,
              Scoping!Own, Scoping!None} /\ cgroups[Scoping!Kid] \in {Home, Scoping!Own,
                  Scoping!None}
      BY <2>2 DEF ScopeInv, PlaceInv
    <3>2. CASE s = Exclusive /\ cgroups[Scoping!Root] # Home /\ cgroups[Scoping!Kid] # Home
      BY <3>1, <3>2 DEF Scoping!Measured, Scoping!Members, Scoping!Usable, Exclusive,
         Scoping!Alive, Scoping!Tree, Scoping!Own, Scoping!None, Scoping!Root, Scoping!Kid,
         Scoping!Stranger
    <3>3. CASE s \in Trues \cup Told \cup Boxes \cup {Guessed}
              /\ cgroups[Scoping!Root] # Scoping!Own
      <4>1. s.by # "exclusive" /\ s # Scoping!NoScope
        BY <2>2, <3>3 DEF Scoping!Scopes, Trues, Told, Boxes, Guessed, Scoping!PidScope,
           Scoping!BoxScope
      <4>2. CASE s.path = Home
        BY <3>1, <3>3, <4>1, <4>2 DEF Scoping!Measured, Scoping!Members, Scoping!Usable,
           Scoping!Alive, Scoping!Tree, Home, Scoping!None, Scoping!Root, Scoping!Kid,
           Scoping!Stranger
      <4>3. CASE s.path # Home
        <5>1. s.path = Scoping!None /\ s.pid = Scoping!Root
          BY <3>3, <4>1, <4>3 DEF Trues, Told, Boxes, Guessed, Scoping!PidScope,
             Scoping!BoxScope, Home
        <5> QED
          BY <4>1, <5>1 DEF Scoping!Measured, Scoping!Usable, Scoping!Root, Scoping!Stranger,
             Scoping!None
      <4> QED
        BY <4>2, <4>3
    <3> QED
      BY <2>2, <3>2, <3>3 DEF ScopeInv, ReadInv, Scoping!Scopes
  <2> QED
    BY <2>1, <2>2 DEF Scoping!ScopeCoversItsOwn
<1> QED
  BY <1>1, ScopeInvAlways, PTL DEF ScopeIsItsOwn

-----------------------------------------------------------------------------
(* The rule generator: the queue and the worker own the keys, the lock the       *)
(* container, and the budget what is queued or generated.                      *)

Holding == {"waiting", "reading", "generating", "helping", "probing", "asking", "answering",
            "adding"}
Outside == {"none", "getting", "discovering", "gone", "dead"}

Workers == [at : Holding \cup Outside, key : Rules!Keys \cup {<<>>},
            source : 0 .. Rules!NoSource, again : {TRUE, FALSE}]

RuleTypes ==
    /\ content \in [Rules!Scripts -> 0 .. MaxEdits]
    /\ states \in [Rules!Keys -> {"none", "queued", "generating", "settled", "cold"}]
    /\ queue \in Seq(Rules!Keys \cup {Rules!Discovery})
    /\ counts \in Nat /\ asked \in Nat /\ asks \in [Rules!Keys -> Nat]
    /\ worker \in Workers
    /\ exec \in [MeasuredExecs -> {"new", "starting", "active", "closing", "ended"}]
    /\ stop \in {TRUE, FALSE}

\* A container that runs is the worker's, which holds the lock; nothing is measured.
ProbeInv ==
    /\ probe = "running" <=> worker.at = "probing"
    /\ probe = "running" => lock = "probe" /\ Rules!Idle
    /\ \A x \in MeasuredExecs : exec[x] = "starting" <=> lock = x

\* A key that is queued is in the queue, in one place; one that is generated has
\* the worker.
QueueInv ==
    /\ \A i \in 1 .. Len(queue) : queue[i] # Rules!Discovery => states[queue[i]] = "queued"
    /\ \A i, j \in 1 .. Len(queue) : queue[i] = queue[j] /\ queue[i] # Rules!Discovery => i = j
    /\ \A k \in Rules!Keys : states[k] = "queued" => \E i \in 1 .. Len(queue) : queue[i] = k
HoldInv ==
    /\ worker.at \in Holding => worker.key \in Rules!Keys /\ states[worker.key] = "generating"
    /\ \A k \in Rules!Keys : states[k] = "generating" => worker.at \in Holding /\ k = worker.key

\* What is known of a script in a container before the worker has read it.
PendingInv ==
    /\ \A k \in Rules!Keys : states[k] = "queued" /\ Rules!EntryOf(k) \in Contained =>
           k[2] = Rules!Pending
    /\ worker.at \in {"waiting", "reading"} /\ Rules!EntryOf(worker.key) \in Contained =>
          worker.key[2] = Rules!Pending

\* The worker has not yet asked for its key.
Unasked ==
    \/ worker.at \in {"waiting", "reading", "generating", "helping", "probing"}
    \/ worker.at = "asking" /\ ~worker.again
AskInv ==
    \A k \in Rules!Keys :
        /\ asks[k] <= 1
        /\ states[k] \in {"none", "cold", "queued"} => asks[k] = 0
        /\ states[k] = "generating" /\ Unasked => asks[k] = 0

\* What the budget was charged for, and will be asked.
Paid == {k \in Rules!Keys :
    \/ states[k] = "queued" /\ Rules!EntryOf(k) \notin Contained
    \/ /\ states[k] = "generating" /\ Unasked
       /\ Rules!EntryOf(k) \in Contained => worker.at \notin {"waiting", "reading"}}
BudgetInv == IsFiniteSet(Paid) /\ asked + Cardinality(Paid) <= counts /\ counts <= Budget

CloseInv ==
    /\ closer # "open" => stop
    /\ closer = "closed" => ~Rules!Alive /\ queue = <<>>

RuleInv ==
    /\ RuleTypes /\ ProbeInv /\ QueueInv /\ HoldInv /\ PendingInv /\ AskInv /\ BudgetInv
    /\ CloseInv

-----------------------------------------------------------------------------
\* An item that is no key asks to look for scripts.
LEMMA DiscoveryIsNoKey == Rules!Discovery \notin Rules!Keys
BY DEF Rules!Discovery, Rules!Keys

\* A worker that has no key.
LEMMA WorkerAtType ==
    ASSUME Rules!RuleAssumption, NEW at \in Outside
    PROVE  /\ Rules!WorkerAt(at) \in Workers
           /\ Rules!WorkerAt(at).at = at /\ Rules!WorkerAt(at).key = <<>>
BY DEF Rules!WorkerAt, Workers, Rules!RuleAssumption, Rules!NoSource

\* A state that is settled, or queued for a key that costs nothing, charges nothing.
LEMMA PaidLess ==
    ASSUME RuleTypes, BudgetInv, Paid' \subseteq Paid, asked' = asked, counts' = counts
    PROVE  BudgetInv'
<1>1. IsFiniteSet(Paid') /\ Cardinality(Paid') <= Cardinality(Paid)
  BY FS_Subset DEF BudgetInv
<1>2. Cardinality(Paid) \in Nat /\ Cardinality(Paid') \in Nat
  BY <1>1, FS_CardinalityType DEF BudgetInv
<1> QED
  BY <1>1, <1>2 DEF BudgetInv, RuleTypes, Workers

\* What is charged is finite, and no more than what holds it.
LEMMA PaidWithin ==
    ASSUME NEW T, IsFiniteSet(T), Paid' \subseteq T
    PROVE  /\ IsFiniteSet(Paid)' /\ Cardinality(Paid)' <= Cardinality(T)
           /\ Cardinality(Paid)' \in Nat /\ Cardinality(T) \in Nat
BY FS_Subset, FS_CardinalityType

\* A key that is charged for is counted.
LEMMA Charged ==
    ASSUME Rules!RuleAssumption, RuleTypes, BudgetInv, NEW k, IsFiniteSet(Paid \cup {k}),
           Cardinality(Paid \cup {k}) = Cardinality(Paid) + 1, Paid' \subseteq Paid \cup {k},
           counts' = counts + 1, counts < Budget, asked' = asked
    PROVE  BudgetInv'
<1> DEFINE T == Paid \cup {k}
<1>1. IsFiniteSet(T) /\ Paid' \subseteq T /\ Cardinality(T) = Cardinality(Paid) + 1
  OBVIOUS
<1> HIDE DEF T
<1>2. IsFiniteSet(Paid') /\ Cardinality(Paid') <= Cardinality(T)
  BY <1>1, FS_Subset
<1>3. Cardinality(Paid') \in Nat /\ Cardinality(T) \in Nat /\ Cardinality(Paid) \in Nat
  BY <1>1, <1>2, FS_CardinalityType DEF BudgetInv
<1> QED
  BY <1>1, <1>2, <1>3 DEF BudgetInv, RuleTypes, Rules!RuleAssumption

\* What is queued, generated and asked does not depend on the rest.
LEMMA FrameStep ==
    ASSUME RuleInv, UNCHANGED <<states, queue, counts, worker, asks, asked>>,
           RuleTypes', ProbeInv', CloseInv'
    PROVE  RuleInv'
<1>1. QueueInv' /\ HoldInv' /\ PendingInv'
  BY DEF RuleInv, QueueInv, HoldInv, PendingInv
<1>2. AskInv' /\ Paid' = Paid
  BY DEF RuleInv, AskInv, Unasked, Paid
<1>3. BudgetInv'
  BY <1>2 DEF RuleInv, BudgetInv
<1> QED
  BY <1>1, <1>2, <1>3 DEF RuleInv

\* The worker goes on with its key.
LEMMA MoveStep ==
    ASSUME RuleInv, worker.at \in Holding, worker'.at \in Holding, worker'.key = worker.key,
           UNCHANGED <<states, queue, counts, asks, asked, closer, stop>>,
           worker'.at \in {"waiting", "reading"} => worker.at = "waiting",
           worker.at \in {"waiting", "reading"} =>
               worker'.at \in {"waiting", "reading"}
                   \/ Rules!EntryOf(worker.key) \notin Contained,
           Unasked' => Unasked, RuleTypes', ProbeInv'
    PROVE  RuleInv'
<1>1. QueueInv' /\ HoldInv'
  BY DEF RuleInv, QueueInv, HoldInv
<1>2. PendingInv'
  BY DEF RuleInv, PendingInv
<1>3. AskInv'
  BY DEF RuleInv, AskInv
<1>4. Paid' \subseteq Paid
  BY DEF RuleInv, HoldInv, Paid
<1>5. BudgetInv'
  BY <1>4, PaidLess DEF RuleInv, RuleTypes, Workers
<1>6. CloseInv'
  BY DEF RuleInv, CloseInv, Rules!Alive, Holding
<1> QED
  BY <1>1, <1>2, <1>3, <1>5, <1>6 DEF RuleInv

\* The worker is done with its key.
LEMMA EndStep ==
    ASSUME Rules!RuleAssumption, RuleInv, worker.at \in Holding, Rules!Finish, ProbeInv',
           UNCHANGED <<content, asks, asked, exec, stop, closer>>
    PROVE  RuleInv'
<1>1. /\ worker.key \in Rules!Keys /\ states[worker.key] = "generating"
      /\ states' = [states EXCEPT ![worker.key] = "settled"]
      /\ worker' = Rules!WorkerAt(IF stop THEN "gone" ELSE "getting")
      /\ UNCHANGED <<queue, counts>>
  BY DEF Rules!Finish, Rules!Settle, Rules!Round, RuleInv, HoldInv
<1>2. worker'.at \in {"gone", "getting"} /\ worker'.key = <<>>
          /\ worker'.source = Rules!NoSource
          /\ worker'.again = FALSE
  BY <1>1 DEF Rules!WorkerAt
<1>3. RuleTypes'
  BY <1>1, WorkerAtType DEF RuleInv, RuleTypes, Outside
<1>4. QueueInv'
  <2>1. \A i \in 1 .. Len(queue) : queue[i] # Rules!Discovery => queue[i] # worker.key
    BY <1>1 DEF RuleInv, QueueInv
  <2>2. \A k \in Rules!Keys : states'[k] = "queued" <=> states[k] = "queued"
    BY <1>1 DEF RuleInv, RuleTypes, Workers
  <2>3. \A i \in 1 .. Len(queue) : queue[i] \in Rules!Keys \cup {Rules!Discovery}
    BY DEF RuleInv, RuleTypes, Workers
  <2> QED
    BY <1>1, <2>1, <2>2, <2>3 DEF RuleInv, QueueInv
<1>5. HoldInv'
  BY <1>1, <1>2 DEF RuleInv, RuleTypes, Workers, HoldInv, Holding
<1>6. PendingInv'
  BY <1>1, <1>2 DEF RuleInv, RuleTypes, Workers, PendingInv
<1>7. AskInv'
  BY <1>1, <1>2 DEF RuleInv, RuleTypes, Workers, AskInv, Unasked
<1>8. Paid' \subseteq Paid
  BY <1>1, <1>2 DEF RuleInv, RuleTypes, Workers, Paid, Unasked
<1>9. BudgetInv'
  BY <1>1, <1>8, PaidLess DEF RuleInv, RuleTypes, Workers
<1>10. CloseInv'
  BY DEF RuleInv, CloseInv, Rules!Alive, Holding
<1> QED
  BY <1>3, <1>4, <1>5, <1>6, <1>7, <1>9, <1>10 DEF RuleInv

\* Who has no key may start, look around or leave.
LEMMA IdleStep ==
    ASSUME RuleInv, worker.at \in Outside, worker'.at \in Outside,
           worker' \in Workers,
           UNCHANGED <<content, states, queue, counts, Rules!measured, stop, closer, asks,
               asked>>,
           closer = "closed" => ~Rules!Alive'
    PROVE  RuleInv'
<1>1. RuleTypes' /\ QueueInv' /\ HoldInv' /\ ProbeInv'
  <2>1. UNCHANGED <<lock, exec, probe>>
    BY DEF Rules!measured
  <2>2. RuleTypes'
    BY <2>1 DEF RuleInv, RuleTypes
  <2>3. QueueInv' /\ HoldInv'
    BY DEF RuleInv, QueueInv, HoldInv, Outside, Holding
  <2>4. ProbeInv'
    BY <2>1 DEF RuleInv, ProbeInv, Rules!Idle, Outside
  <2> QED
    BY <2>2, <2>3, <2>4
<1>2. PendingInv' /\ CloseInv'
  BY DEF RuleInv, PendingInv, CloseInv, Outside
<1>3. \A k \in Rules!Keys : states[k] # "generating"
  BY DEF RuleInv, HoldInv, Holding, Outside
<1>4. AskInv' /\ Paid' \subseteq Paid
  BY <1>3 DEF RuleInv, AskInv, Paid
<1>5. BudgetInv'
  BY <1>4, PaidLess DEF RuleInv, RuleTypes, Workers
<1> QED
  BY <1>1, <1>2, <1>4, <1>5 DEF RuleInv

\* A key is queued, by a prediction or by the worker that looks for scripts.
LEMMA AcceptStep ==
    ASSUME Rules!RuleAssumption, RuleInv, NEW k \in Rules!Keys, Rules!Accepts(k),
           Rules!Accept(k),
           Rules!EntryOf(k) \in Contained => k[2] = Rules!Pending,
           queue' = Append(queue, k),
           worker' \in Workers,
           worker' = worker \/ (worker.at \in Outside /\ worker'.at \in Outside),
           UNCHANGED <<content, Rules!measured, stop, closer, asks, asked>>
    PROVE  RuleInv'
<1>1. /\ states[k] \in {"none", "cold"} /\ ~stop /\ counts < Budget
      /\ states' = [states EXCEPT ![k] = "queued"]
      /\ counts' = IF Rules!EntryOf(k) \in Contained THEN counts ELSE counts + 1
  BY DEF Rules!Accepts, Rules!Accept, Rules!Known, Rules!Affordable, RuleInv, RuleTypes, Workers
<1>2. /\ Len(queue') = Len(queue) + 1 /\ queue'[Len(queue) + 1] = k
      /\ \A i \in 1 .. Len(queue) : queue'[i] = queue[i]
             /\ queue[i] \in Rules!Keys \cup {Rules!Discovery}
      /\ queue' \in Seq(Rules!Keys \cup {Rules!Discovery}) /\ Len(queue) \in Nat
  BY DEF RuleInv, RuleTypes, Workers
<1>3. RuleTypes'
  <2>1. counts' \in Nat /\ states' \in [Rules!Keys -> {"none", "queued", "generating",
            "settled", "cold"}]
    BY <1>1 DEF RuleInv, RuleTypes
  <2> QED
    BY <1>2, <2>1 DEF RuleInv, RuleTypes, Rules!measured
<1>4. ProbeInv'
  BY DEF RuleInv, ProbeInv, Rules!Idle, Rules!measured, Outside
<1>5. QueueInv'
  <2>1. \A i \in 1 .. Len(queue) : queue[i] # k
    BY <1>1, DiscoveryIsNoKey DEF RuleInv, QueueInv
  <2>2. \A i \in 1 .. Len(queue') : i \in 1 .. Len(queue) \/ i = Len(queue) + 1
    BY <1>2
  <2>3. \A i \in 1 .. Len(queue') : queue'[i] # Rules!Discovery => states'[queue'[i]] = "queued"
    <3>1. \A h \in Rules!Keys : h # k => states'[h] = states[h]
      BY <1>1 DEF RuleInv, RuleTypes
    <3>2. states'[k] = "queued"
      BY <1>1 DEF RuleInv, RuleTypes
    <3>3. \A i \in 1 .. Len(queue) : queue[i] # Rules!Discovery => states[queue[i]] = "queued"
      BY DEF RuleInv, QueueInv
    <3> QED
      BY <1>2, <2>1, <2>2, <3>1, <3>2, <3>3
  <2>4. \A i, j \in 1 .. Len(queue') : queue'[i] = queue'[j]
            /\ queue'[i] # Rules!Discovery => i = j
    BY <1>2, <2>1, <2>2 DEF RuleInv, QueueInv
  <2>5. \A h \in Rules!Keys : states'[h] = "queued" => \E i \in 1 .. Len(queue') : queue'[i] = h
    <3> SUFFICES ASSUME NEW h \in Rules!Keys, states'[h] = "queued"
                 PROVE  \E i \in 1 .. Len(queue') : queue'[i] = h
      OBVIOUS
    <3>1. CASE h = k
      BY <1>2, <3>1
    <3>2. CASE h # k
      <4>1. PICK i \in 1 .. Len(queue) : queue[i] = h
        BY <1>1, <3>2 DEF RuleInv, RuleTypes, Workers, QueueInv
      <4> QED
        BY <1>2, <4>1
    <3> QED
      BY <3>1, <3>2
  <2> QED
    BY <2>3, <2>4, <2>5 DEF QueueInv
<1>6. HoldInv'
  BY <1>1 DEF RuleInv, RuleTypes, Workers, HoldInv, Outside, Holding
<1>7. PendingInv'
  BY <1>1 DEF RuleInv, RuleTypes, Workers, PendingInv, Outside
<1>8. Unasked' => Unasked
  BY DEF Unasked, Outside
<1>9. AskInv'
  BY <1>1, <1>8 DEF RuleInv, RuleTypes, Workers, AskInv
<1>10. k \notin Paid /\ Paid' \subseteq Paid \cup {k} /\ (Rules!EntryOf(k) \in Contained =>
           k \notin Paid')
  <2>1. worker.at \in Outside \/ worker' = worker
    OBVIOUS
  <2>2. \A h \in Rules!Keys : h # k => states'[h] = states[h]
    BY <1>1 DEF RuleInv, RuleTypes, Workers
  <2>3. states'[k] = "queued"
    BY <1>1 DEF RuleInv, RuleTypes, Workers
  <2> QED
    BY <1>1, <1>8, <2>1, <2>2, <2>3 DEF RuleInv, HoldInv, Paid, Outside, Unasked
<1>11. BudgetInv'
  <2>1. CASE Rules!EntryOf(k) \in Contained
    <3>1. Paid' \subseteq Paid /\ counts' = counts
      BY <1>1, <1>10, <2>1
    <3> QED
      BY <3>1, PaidLess DEF RuleInv
  <2>2. CASE Rules!EntryOf(k) \notin Contained
    <3>1. IsFiniteSet(Paid \cup {k}) /\ Cardinality(Paid \cup {k}) = Cardinality(Paid) + 1
      BY <1>10, FS_AddElement DEF RuleInv, BudgetInv
    <3>2. counts' = counts + 1 /\ counts < Budget
      BY <1>1, <2>2
    <3> QED
      BY <1>10, <3>1, <3>2, Charged DEF RuleInv
  <2> QED
    BY <2>1, <2>2
<1>12. CloseInv'
  BY <1>1 DEF RuleInv, CloseInv
<1> QED
  BY <1>3, <1>4, <1>5, <1>6, <1>7, <1>9, <1>11, <1>12 DEF RuleInv

-----------------------------------------------------------------------------
\* Nothing is known at first.
LEMMA RuleInvInit == Rules!RuleAssumption /\ Rules!Init => RuleInv
<1> SUFFICES ASSUME Rules!RuleAssumption, Rules!Init PROVE RuleInv
  OBVIOUS
<1>1. worker.at = "none" /\ worker.key = <<>> /\ queue = <<>>
  BY DEF Rules!Init, Rules!WorkerAt
<1>2. RuleTypes
  <2>1. worker \in Workers
    BY WorkerAtType DEF Rules!Init, Outside
  <2> QED
    <3>1. content \in [Rules!Scripts -> 0 .. MaxEdits] /\ asks \in [Rules!Keys -> Nat]
      BY DEF Rules!Init, Rules!RuleAssumption
    <3>2. queue \in Seq(Rules!Keys \cup {Rules!Discovery})
      BY <1>1
    <3>3. /\ states \in [Rules!Keys -> {"none", "queued", "generating", "settled", "cold"}]
          /\ exec \in [MeasuredExecs -> {"new", "starting", "active", "closing", "ended"}]
      BY DEF Rules!Init
    <3> QED
      BY <2>1, <3>1, <3>2, <3>3 DEF Rules!Init, RuleTypes
<1>3. ProbeInv
  BY <1>1 DEF Rules!Init, ProbeInv, Rules!RuleAssumption
<1>4. QueueInv /\ HoldInv /\ PendingInv
  BY <1>1 DEF Rules!Init, QueueInv, HoldInv, PendingInv, Holding
<1>5. AskInv /\ Paid = {}
  BY DEF Rules!Init, AskInv, Paid
<1>6. BudgetInv
  BY <1>5, FS_EmptySet DEF Rules!Init, BudgetInv, Rules!RuleAssumption
<1>7. CloseInv
  BY DEF Rules!Init, CloseInv
<1> QED
  BY <1>2, <1>3, <1>4, <1>5, <1>6, <1>7 DEF RuleInv

\* A prediction queues a key.
LEMMA EnqueueStep ==
    ASSUME Rules!RuleAssumption, RuleInv, NEW e \in Rules!Entries, Rules!Enqueue(e)
    PROVE  RuleInv'
<1>1. PICK version \in Rules!Readable(e) :
         LET k == Rules!KeyOf(e, version) IN Rules!Accepts(k) /\ Rules!Accept(k) /\ Rules!Put(k)
  BY DEF Rules!Enqueue
<1> DEFINE k == Rules!KeyOf(e, version)
<1>2. version \in 0 .. Rules!NoSource /\ Rules!Pending \in 0 .. Rules!NoSource
  BY DEF Rules!Readable, RuleInv, RuleTypes, Workers, Rules!RuleAssumption, Rules!NoSource,
     Rules!Pending
<1>3. k \in Rules!Keys /\ (Rules!EntryOf(k) \in Contained => k[2] = Rules!Pending)
  BY <1>2 DEF Rules!KeyOf, Rules!Keys, Rules!EntryOf
<1>4. Rules!Accepts(k) /\ Rules!Accept(k) /\ Rules!Put(k)
  BY <1>1
<1>5. /\ worker' \in Workers
      /\ worker' = worker \/ (worker.at \in Outside /\ worker'.at \in Outside)
  BY <1>4 DEF Rules!Put, RuleInv, RuleTypes, Workers, Outside
<1> HIDE DEF k
<1> QED
  BY <1>3, <1>4, <1>5, AcceptStep DEF Rules!Enqueue, Rules!Put, Rules!history

\* Search keeps the invariant.
LEMMA SearchStep ==
    ASSUME Rules!RuleAssumption, RuleInv, Rules!Search
    PROVE  RuleInv'
<1>1. worker.at = "discovering" /\ worker.at \in Outside
  BY DEF Rules!Search, Outside
<1>2. UNCHANGED <<content, Rules!measured, stop, closer, asks, asked>>
  BY DEF Rules!Search, Rules!history
<1>3. closer # "closed"
  BY <1>1 DEF RuleInv, CloseInv, Rules!Alive
<1>4. /\ worker' \in Workers
      /\ worker'.at \in Outside
  BY WorkerAtType DEF Rules!Search, Rules!Round, Outside
<1>5. CASE UNCHANGED Rules!shared
  BY <1>1, <1>2, <1>3, <1>4, <1>5, IdleStep DEF Rules!shared
<1>6. ASSUME NEW e \in Local, NEW version \in Rules!Readable(e),
             Rules!Accepts(Rules!KeyOf(e, version)),
             Rules!Accept(Rules!KeyOf(e, version)), queue' = Append(queue, Rules!KeyOf(e,
                 version))
      PROVE  RuleInv'
  <2> DEFINE k == Rules!KeyOf(e, version)
  <2>1. version \in 0 .. Rules!NoSource /\ Rules!Pending \in 0 .. Rules!NoSource
    BY DEF Rules!Readable, RuleInv, RuleTypes, Workers, Rules!RuleAssumption, Rules!NoSource,
       Rules!Pending
  <2>2. k \in Rules!Keys /\ (Rules!EntryOf(k) \in Contained => k[2] = Rules!Pending)
    BY <2>1 DEF Rules!KeyOf, Rules!Keys, Rules!EntryOf, Rules!Entries, Rules!Scripts
  <2>3. Rules!Accepts(k) /\ Rules!Accept(k) /\ queue' = Append(queue, k)
    BY <1>6
  <2> HIDE DEF k
  <2> QED
    BY <1>1, <1>2, <1>4, <2>2, <2>3, AcceptStep
<1> QED
  BY <1>5, <1>6 DEF Rules!Search

\* Scripts are looked for.
LEMMA DiscoverStep ==
    ASSUME Rules!RuleAssumption, RuleInv, Rules!Discover
    PROVE  RuleInv'
<1>1. UNCHANGED <<content, states, counts, Rules!measured, stop, closer, asks, asked>>
  BY DEF Rules!Discover, Rules!history
<1>2. CASE UNCHANGED <<queue, worker>>
  <2>1. RuleTypes' /\ ProbeInv' /\ CloseInv'
    BY <1>1, <1>2 DEF RuleInv, RuleTypes, Workers, ProbeInv, CloseInv, Rules!Alive, Rules!Idle,
       Rules!measured
  <2> QED
    BY <1>1, <1>2, <2>1, FrameStep
<1>3. CASE Rules!Put(Rules!Discovery)
  <2>1. /\ worker' \in Workers
        /\ worker' = worker \/ (worker.at \in Outside /\ worker'.at \in Outside)
        /\ worker'.key = worker.key /\ worker'.again = worker.again
        /\ closer = "open"
    BY <1>3 DEF Rules!Put, RuleInv, RuleTypes, Workers, Outside, Rules!Discover
  <2>2. /\ Len(queue') = Len(queue) + 1 /\ queue'[Len(queue) + 1] = Rules!Discovery
        /\ \A i \in 1 .. Len(queue) : queue'[i] = queue[i]
        /\ queue' \in Seq(Rules!Keys \cup {Rules!Discovery}) /\ Len(queue) \in Nat
    BY <1>3 DEF RuleInv, RuleTypes, Workers, Rules!Put
  <2>3. RuleTypes' /\ CloseInv'
    BY <1>1, <2>1, <2>2 DEF RuleInv, RuleTypes, CloseInv, Rules!measured
  <2>4. ProbeInv'
    BY <1>1, <2>1 DEF RuleInv, ProbeInv, Rules!Idle, Rules!measured, Outside
  <2>5. QueueInv'
    <3>1. \A i \in 1 .. Len(queue') : i \in 1 .. Len(queue) \/ queue'[i] = Rules!Discovery
      BY <2>2
    <3>2. 1 .. Len(queue) \subseteq 1 .. Len(queue')
      BY <2>2
    <3>3. \A i \in 1 .. Len(queue') : queue'[i] # Rules!Discovery =>
              states'[queue'[i]] = "queued"
      BY <1>1, <2>2, <3>1 DEF RuleInv, QueueInv
    <3>4. \A i, j \in 1 .. Len(queue') : queue'[i] = queue'[j]
              /\ queue'[i] # Rules!Discovery => i = j
      BY <2>2, <3>1 DEF RuleInv, QueueInv
    <3>5. ASSUME NEW h \in Rules!Keys, states'[h] = "queued"
          PROVE  \E i \in 1 .. Len(queue') : queue'[i] = h
      <4>1. PICK i \in 1 .. Len(queue) : queue[i] = h
        BY <1>1, <3>5 DEF RuleInv, QueueInv
      <4> QED
        BY <2>2, <3>2, <4>1
    <3> QED
      BY <3>3, <3>4, <3>5 DEF QueueInv
  <2>6. HoldInv' /\ PendingInv'
    BY <1>1, <2>1 DEF RuleInv, HoldInv, PendingInv, Outside, Holding
  <2>7. AskInv' /\ Paid' \subseteq Paid
    BY <1>1, <2>1 DEF RuleInv, AskInv, HoldInv, Unasked, Paid, Outside
  <2>8. BudgetInv'
    BY <1>1, <2>7, PaidLess DEF RuleInv, RuleTypes, Workers
  <2> QED
    BY <2>3, <2>4, <2>5, <2>6, <2>7, <2>8 DEF RuleInv
<1> QED
  BY <1>2, <1>3 DEF Rules!Discover

\* The worker takes what is next.
LEMMA GetStep ==
    ASSUME Rules!RuleAssumption, RuleInv, Rules!Get
    PROVE  RuleInv'
<1>1. /\ worker.at = "getting" /\ worker.at \in Outside /\ closer # "closed"
      /\ UNCHANGED <<content, Rules!measured, stop, closer, asks, asked>>
  BY DEF Rules!Get, Outside, RuleInv, CloseInv, Rules!Alive, Rules!history
<1>2. CASE queue = <<>>
  <2>1. /\ worker' \in Workers
        /\ worker'.at \in Outside /\ UNCHANGED <<states, queue, counts>>
    BY <1>2, WorkerAtType DEF Rules!Get, Rules!Round, Outside, Rules!shared
  <2> QED
    BY <1>1, <2>1, IdleStep
<1>3. CASE queue # <<>>
  <2> DEFINE item == queue[1]
  <2>1. /\ Len(queue) \in Nat \ {0} /\ queue \in Seq(Rules!Keys \cup {Rules!Discovery})
        /\ item \in Rules!Keys \cup {Rules!Discovery} /\ Head(queue) = item
        /\ queue' = Tail(queue) /\ UNCHANGED counts
    BY <1>3 DEF Rules!Get, RuleInv, RuleTypes, Workers
  <2>2. /\ Len(queue') = Len(queue) - 1 /\ queue' \in Seq(Rules!Keys \cup {Rules!Discovery})
        /\ \A i \in 1 .. Len(queue') : queue'[i] = queue[i + 1] /\ i + 1 \in 1 .. Len(queue)
    BY <2>1
  <2>3. CloseInv'
    BY <1>1 DEF RuleInv, CloseInv
  <2>4. \A i \in 1 .. Len(queue) : i = 1 \/ (i - 1 \in 1 .. Len(queue')
            /\ queue'[i - 1] = queue[i])
    BY <2>1, <2>2
  <2>5. ASSUME NEW h \in Rules!Keys, states[h] = "queued", h # item
        PROVE  \E i \in 1 .. Len(queue') : queue'[i] = h
    <3>1. PICK i \in 1 .. Len(queue) : queue[i] = h
      BY <2>5 DEF RuleInv, QueueInv
    <3> QED
      BY <2>4, <2>5, <3>1
  <2>6. \A i, j \in 1 .. Len(queue') : queue'[i] = queue'[j]
            /\ queue'[i] # Rules!Discovery => i = j
    BY <2>2 DEF RuleInv, QueueInv
  <2>7. CASE item = Rules!Discovery
    <3>1. worker' = [worker EXCEPT !.at = "discovering"] /\ states' = states
      BY <1>3, <2>1, <2>7 DEF Rules!Get
    <3>2. worker'.at = "discovering" /\ worker'.at \in Outside /\ worker'.again = worker.again
      BY <3>1 DEF RuleInv, RuleTypes, Workers, Outside
    <3>3. RuleTypes'
      BY <1>1, <2>1, <2>2, <3>1 DEF RuleInv, RuleTypes, Workers, Outside, Rules!measured
    <3>4. QueueInv'
      BY <2>2, <2>5, <2>6, <2>7, <3>1, DiscoveryIsNoKey DEF RuleInv, QueueInv
    <3>5. HoldInv' /\ PendingInv' /\ ProbeInv'
      BY <1>1, <3>1, <3>2 DEF RuleInv, HoldInv, PendingInv, ProbeInv, Rules!Idle, Holding,
         Rules!measured
    <3>6. AskInv' /\ Paid' \subseteq Paid
      BY <1>1, <3>1, <3>2 DEF RuleInv, AskInv, Paid, Unasked
    <3>7. BudgetInv'
      BY <1>1, <2>1, <3>6, PaidLess DEF RuleInv, RuleTypes, Workers
    <3> QED
      BY <2>3, <3>3, <3>4, <3>5, <3>6, <3>7 DEF RuleInv
  <2>8. CASE item # Rules!Discovery
    <3>1. /\ item \in Rules!Keys /\ states[item] = "queued"
          /\ worker' = [worker EXCEPT !.at = "waiting", !.key = item]
          /\ states' = [states EXCEPT ![item] = "generating"]
      BY <1>3, <2>1, <2>8 DEF Rules!Get, RuleInv, QueueInv
    <3>2. worker'.at = "waiting" /\ worker'.key = item
      BY <3>1 DEF RuleInv, RuleTypes, Workers
    <3>3. RuleTypes'
      BY <1>1, <2>1, <2>2, <3>1 DEF RuleInv, RuleTypes, Workers, Holding, Rules!measured
    <3>4. \A h \in Rules!Keys : h # item => states'[h] = states[h]
      BY <3>1 DEF RuleInv, RuleTypes, Workers
    <3>5. states'[item] = "generating" /\ \A h \in Rules!Keys : states[h] # "generating"
      BY <1>1, <3>1 DEF RuleInv, RuleTypes, Workers, HoldInv, Holding
    <3>6. QueueInv'
      <4>1. ASSUME NEW i \in 1 .. Len(queue'), queue'[i] # Rules!Discovery
            PROVE  states'[queue'[i]] = "queued"
        <5>1. queue[i + 1] # item /\ queue[i + 1] \in Rules!Keys
                  /\ states[queue[i + 1]] = "queued"
          BY <2>1, <2>2, <4>1 DEF RuleInv, QueueInv
        <5> QED
          BY <2>2, <3>4, <5>1
      <4>2. ASSUME NEW h \in Rules!Keys, states'[h] = "queued"
            PROVE  \E i \in 1 .. Len(queue') : queue'[i] = h
        BY <2>5, <3>4, <3>5, <4>2
      <4> QED
        BY <2>6, <4>1, <4>2 DEF QueueInv
    <3>7. HoldInv'
      BY <3>1, <3>2, <3>4, <3>5 DEF HoldInv, Holding
    <3>8. PendingInv'
      BY <3>1, <3>2, <3>4, <3>5 DEF RuleInv, PendingInv
    <3>9. ProbeInv'
      BY <1>1, <3>2 DEF RuleInv, ProbeInv, Rules!Idle, Rules!measured
    <3>10. AskInv'
      BY <1>1, <3>1, <3>4, <3>5 DEF RuleInv, AskInv
    <3>11. Paid' \subseteq Paid
      BY <3>1, <3>2, <3>4, <3>5 DEF Paid, Unasked
    <3>12. BudgetInv'
      BY <1>1, <2>1, <3>11, PaidLess DEF RuleInv, RuleTypes, Workers
    <3> QED
      BY <2>3, <3>3, <3>6, <3>7, <3>8, <3>9, <3>10, <3>12 DEF RuleInv
  <2> QED
    BY <2>7, <2>8
<1> QED
  BY <1>2, <1>3

\* An action of the worker that leaves the lock and what is measured alone.
LEMMA SameProbe ==
    ASSUME RuleInv, UNCHANGED Rules!measured, worker.at # "probing", worker'.at # "probing"
    PROVE  ProbeInv'
BY DEF RuleInv, ProbeInv, Rules!Idle, Rules!measured

\* Wait keeps the invariant.
LEMMA WaitStep ==
    ASSUME Rules!RuleAssumption, RuleInv, Rules!Wait
    PROVE  RuleInv'
<1>1. /\ worker.at = "waiting" /\ worker.at \in Holding
      /\ UNCHANGED <<content, Rules!measured, stop, closer, asks, asked>>
  BY DEF Rules!Wait, Holding, Rules!history
<1>2. CASE Rules!Fail
  <2>1. ProbeInv'
    BY <1>1, <1>2, SameProbe DEF Rules!Fail, Rules!Finish, Rules!Round, Rules!WorkerAt
  <2> QED
    BY <1>1, <1>2, <2>1, EndStep DEF Rules!Fail, Rules!measured
<1>3. CASE Rules!Go("reading")
  <2>1. worker'.at = "reading" /\ worker'.key = worker.key /\ worker'.at \in Holding
    BY <1>3 DEF Rules!Go, RuleInv, RuleTypes, Workers, Holding
  <2>2. ProbeInv'
    BY <1>1, <2>1, SameProbe
  <2>3. RuleTypes'
    BY <1>1, <1>3, <2>1 DEF Rules!Go, Rules!shared, RuleInv, RuleTypes, Workers, Rules!measured
  <2> QED
    BY <1>1, <1>3, <2>1, <2>2, <2>3, MoveStep DEF Rules!Go, Rules!shared, Unasked
<1> QED
  BY <1>2, <1>3 DEF Rules!Wait

\* Generate keeps the invariant.
LEMMA GenerateStep ==
    ASSUME Rules!RuleAssumption, RuleInv, Rules!Generate
    PROVE  RuleInv'
<1>1. /\ worker.at = "generating" /\ worker.at \in Holding
      /\ UNCHANGED <<content, Rules!measured, stop, closer, asks, asked>>
  BY DEF Rules!Generate, Holding, Rules!history
<1>2. CASE Rules!Fail
  <2>1. ProbeInv'
    BY <1>1, <1>2, SameProbe DEF Rules!Fail, Rules!Finish, Rules!Round, Rules!WorkerAt
  <2> QED
    BY <1>1, <1>2, <2>1, EndStep DEF Rules!Fail, Rules!measured
<1>3. ASSUME NEW at \in {"asking", "helping"}, Rules!Go(at) PROVE RuleInv'
  <2>1. worker'.at = at /\ worker'.key = worker.key /\ worker'.at \in Holding
    BY <1>3 DEF Rules!Go, RuleInv, RuleTypes, Workers, Holding
  <2>2. ProbeInv'
    BY <1>1, <1>3, <2>1, SameProbe
  <2>3. RuleTypes'
    BY <1>1, <1>3, <2>1 DEF Rules!Go, Rules!shared, RuleInv, RuleTypes, Workers, Rules!measured
  <2> QED
    BY <1>1, <1>3, <2>1, <2>2, <2>3, MoveStep DEF Rules!Go, Rules!shared, Unasked
<1> QED
  BY <1>2, <1>3 DEF Rules!Generate

\* The source decides under which key the worker goes on.
LEMMA ReadStep ==
    ASSUME Rules!RuleAssumption, RuleInv, Rules!ReadSource
    PROVE  RuleInv'
<1> DEFINE e == Rules!EntryOf(worker.key)
<1>1. /\ worker.at = "reading" /\ worker.at \in Holding /\ closer # "closed"
      /\ worker.key \in Rules!Keys /\ states[worker.key] = "generating"
      /\ UNCHANGED <<content, Rules!measured, stop, closer, asks, asked>>
  BY DEF Rules!ReadSource, Holding, RuleInv, HoldInv, CloseInv, Rules!Alive, Rules!history
<1>2. Rules!Readable(e) \subseteq 0 .. Rules!NoSource /\ Rules!Pending \notin Rules!Readable(e)
  BY DEF Rules!Readable, RuleInv, RuleTypes, Workers, Rules!RuleAssumption, Rules!NoSource,
     Rules!Pending
<1>3. ASSUME NEW version \in Rules!Readable(e), e \notin Contained, UNCHANGED Rules!shared,
             worker' = [worker EXCEPT !.at = "generating", !.source = version]
      PROVE  RuleInv'
  <2>1. worker'.at = "generating" /\ worker'.key = worker.key /\ worker'.at \in Holding
    BY <1>3 DEF RuleInv, RuleTypes, Workers, Holding
  <2>2. ProbeInv'
    BY <1>1, <2>1, SameProbe
  <2>3. RuleTypes'
    BY <1>1, <1>2, <1>3, <2>1 DEF Rules!shared, RuleInv, RuleTypes, Workers, Rules!measured
  <2> QED
    BY <1>1, <1>3, <2>1, <2>2, <2>3, MoveStep DEF Rules!shared, Unasked
<1>4. ASSUME NEW version \in Rules!Readable(e), e \in Contained, Rules!Resolve(version),
             UNCHANGED queue
      PROVE  RuleInv'
  <2> DEFINE k == <<e, version>>
             popped == [states EXCEPT ![worker.key] = "none"]
  <2>1. /\ k \in Rules!Keys /\ k # worker.key /\ Rules!EntryOf(k) = e /\ k[2] = version
        /\ popped \in [Rules!Keys -> {"none", "queued", "generating", "settled", "cold"}]
        /\ popped[worker.key] = "none"
        /\ \A h \in Rules!Keys : h # worker.key => popped[h] = states[h]
    BY <1>1, <1>2, <1>4 DEF Rules!Keys, Rules!EntryOf, RuleInv, RuleTypes, Workers, PendingInv
  <2>2. /\ \A h \in Rules!Keys : h # worker.key => states[h] # "generating"
        /\ asks[worker.key] = 0
    BY <1>1 DEF RuleInv, HoldInv, AskInv, Unasked
  <2>3. \A i \in 1 .. Len(queue) : queue[i] # Rules!Discovery =>
            queue[i] \in Rules!Keys /\ states[queue[i]] = "queued" /\ queue[i] # worker.key
    BY <1>1 DEF RuleInv, RuleTypes, Workers, QueueInv
  <2>4. CloseInv'
    BY <1>1 DEF RuleInv, CloseInv
  <2>5. CASE Rules!UnlessNew(k)
    <3>1. /\ states' = [popped EXCEPT ![k] = "generating"] /\ counts' = counts + 1
          /\ worker' = [worker EXCEPT !.at = "generating", !.key = k, !.source = version]
      BY <1>4, <2>5 DEF Rules!Resolve
    <3>2. states[k] \in {"none", "cold"} /\ counts < Budget
      BY <2>1, <2>5 DEF Rules!UnlessNew, Rules!Known, Rules!Affordable, RuleInv, RuleTypes,
         Workers
    <3>3. worker'.at = "generating" /\ worker'.key = k
      BY <3>1 DEF RuleInv, RuleTypes, Workers
    <3>4. /\ states'[k] = "generating" /\ states'[worker.key] = "none"
          /\ \A h \in Rules!Keys : h # worker.key /\ h # k => states'[h] = states[h]
      BY <1>1, <2>1, <3>1
    <3> HIDE DEF k, popped
    <3>5. RuleTypes'
      <4>1. worker' \in Workers
        BY <1>2, <1>4, <2>1, <3>1 DEF RuleInv, RuleTypes, Workers, Holding
      <4>2. counts' \in Nat
        BY <3>1 DEF RuleInv, RuleTypes
      <4>3. states' \in [Rules!Keys -> {"none", "queued", "generating", "settled", "cold"}]
        BY <2>1, <3>1
      <4> QED
        BY <1>1, <1>4, <4>1, <4>2, <4>3 DEF RuleInv, RuleTypes, Rules!measured
    <3>6. QueueInv'
      BY <1>1, <1>4, <2>3, <3>2, <3>4 DEF RuleInv, QueueInv
    <3>7. HoldInv'
      BY <2>1, <2>2, <3>3, <3>4 DEF HoldInv, Holding
    <3>8. PendingInv'
      BY <3>3, <3>4 DEF RuleInv, PendingInv
    <3>9. ProbeInv'
      BY <1>1, <3>3, SameProbe
    <3>10. AskInv'
      BY <1>1, <2>2, <3>2, <3>4 DEF RuleInv, AskInv
    <3>11. Paid' \subseteq Paid \cup {k} /\ k \notin Paid
      BY <2>2, <3>2, <3>3, <3>4 DEF Paid
    <3>12. BudgetInv'
      <4>1. IsFiniteSet(Paid \cup {k}) /\ Cardinality(Paid \cup {k}) = Cardinality(Paid) + 1
        BY <3>11, FS_AddElement DEF RuleInv, BudgetInv
      <4> QED
        BY <1>1, <3>1, <3>2, <3>11, <4>1, PaidWithin, FS_CardinalityType
           DEF RuleInv, RuleTypes, Workers, BudgetInv, Rules!RuleAssumption
    <3> QED
      BY <2>4, <3>5, <3>6, <3>7, <3>8, <3>9, <3>10, <3>12 DEF RuleInv
  <2>6. CASE ~Rules!UnlessNew(k)
    <3>1. /\ states' = popped /\ counts' = counts
          /\ worker' = Rules!WorkerAt(IF stop THEN "gone" ELSE "getting")
      BY <1>4, <2>6 DEF Rules!Resolve, Rules!Round
    <3>2. worker'.at \in {"gone", "getting"} /\ worker'.key = <<>>
      BY <3>1 DEF Rules!WorkerAt
    <3>3. states'[worker.key] = "none" /\ \A h \in Rules!Keys : h # worker.key =>
              states'[h] = states[h]
      BY <2>1, <3>1
    <3> HIDE DEF k, popped
    <3>4. RuleTypes'
      BY <1>1, <1>4, <2>1, <3>1, WorkerAtType DEF RuleInv, RuleTypes, Outside, Rules!measured
    <3>5. QueueInv'
      BY <1>1, <1>4, <2>3, <3>3 DEF RuleInv, QueueInv
    <3>6. HoldInv' /\ PendingInv'
      BY <2>2, <3>2, <3>3 DEF RuleInv, HoldInv, PendingInv, Holding
    <3>7. ProbeInv'
      BY <1>1, <3>2, SameProbe
    <3>8. AskInv'
      BY <1>1, <2>2, <3>3 DEF RuleInv, AskInv
    <3>9. Paid' \subseteq Paid
      BY <2>2, <3>3 DEF Paid
    <3>10. BudgetInv'
      BY <1>1, <3>1, <3>9, PaidLess DEF RuleInv
    <3> QED
      BY <2>4, <3>4, <3>5, <3>6, <3>7, <3>8, <3>10 DEF RuleInv
  <2> QED
    BY <2>5, <2>6
<1> QED
  BY <1>3, <1>4 DEF Rules!ReadSource

\* A container runs under the lock.
LEMMA AcquireStep ==
    ASSUME Rules!RuleAssumption, RuleInv, Rules!Acquire
    PROVE  RuleInv'
<1>1. /\ worker.at = "helping" /\ worker.at \in Holding /\ lock = "free"
      /\ UNCHANGED <<content, exec, stop, closer, asks, asked>>
  BY DEF Rules!Acquire, Holding, Rules!history
<1>2. CASE Rules!Fail /\ UNCHANGED <<lock, probe>>
  <2>1. ProbeInv'
    BY <1>1, <1>2, SameProbe DEF Rules!Fail, Rules!Finish, Rules!Round, Rules!WorkerAt,
       Rules!measured
  <2> QED
    BY <1>1, <1>2, <2>1, EndStep DEF Rules!Fail
<1>3. CASE Rules!Go("probing") /\ lock' = "probe" /\ probe' = "running" /\ Rules!MayProbe
  <2>1. worker'.at = "probing" /\ worker'.key = worker.key /\ worker'.at \in Holding
    BY <1>3 DEF Rules!Go, RuleInv, RuleTypes, Workers, Holding
  <2>2. ProbeInv'
    BY <1>1, <1>3, <2>1 DEF RuleInv, ProbeInv, Rules!MayProbe, Rules!Idle, Rules!RuleAssumption
  <2>3. RuleTypes'
    BY <1>1, <1>3, <2>1 DEF Rules!Go, Rules!shared, RuleInv, RuleTypes, Workers
  <2> QED
    BY <1>1, <1>3, <2>1, <2>2, <2>3, MoveStep DEF Rules!Go, Rules!shared, Unasked
<1> QED
  BY <1>2, <1>3 DEF Rules!Acquire

\* It is removed, or docker says that it was not.
LEMMA ProbeEndsStep ==
    ASSUME Rules!RuleAssumption, RuleInv, Rules!ProbeEnds
    PROVE  RuleInv'
<1>1. /\ worker.at = "probing" /\ worker.at \in Holding /\ lock' = "free" /\ probe = "running"
      /\ probe' # "running" /\ UNCHANGED <<content, exec, stop, closer, asks, asked>>
  BY DEF Rules!ProbeEnds, Holding, RuleInv, ProbeInv, Rules!history
<1>2. \A x \in MeasuredExecs : exec'[x] # "starting" /\ lock' # x
  BY <1>1 DEF RuleInv, ProbeInv, Rules!RuleAssumption
<1>3. CASE Rules!Fail
  <2>1. ProbeInv'
    BY <1>1, <1>2, <1>3 DEF Rules!Fail, Rules!Finish, Rules!Round, Rules!WorkerAt, ProbeInv
  <2> QED
    BY <1>1, <1>3, <2>1, EndStep DEF Rules!Fail
<1>4. CASE Rules!Go("asking")
  <2>1. worker'.at = "asking" /\ worker'.key = worker.key /\ worker'.at \in Holding
    BY <1>4 DEF Rules!Go, RuleInv, RuleTypes, Workers, Holding
  <2>2. ProbeInv'
    BY <1>1, <1>2, <2>1 DEF ProbeInv
  <2>3. RuleTypes'
    BY <1>1, <1>4, <2>1 DEF Rules!Go, Rules!shared, RuleInv, RuleTypes, Workers
  <2> QED
    BY <1>1, <1>4, <2>1, <2>2, <2>3, MoveStep DEF Rules!Go, Rules!shared, Unasked
<1> QED
  BY <1>3, <1>4 DEF Rules!ProbeEnds

\* A key is asked for once, and was charged for.
LEMMA AskStep ==
    ASSUME Rules!RuleAssumption, RuleInv, Rules!Ask
    PROVE  RuleInv'
<1>1. /\ worker.at = "asking" /\ worker.at \in Holding /\ worker.key \in Rules!Keys
      /\ states[worker.key] = "generating"
      /\ UNCHANGED <<content, Rules!measured, stop, closer>>
  BY DEF Rules!Ask, Holding, RuleInv, HoldInv
<1>2. CASE Rules!Fail /\ UNCHANGED Rules!history
  <2>1. ProbeInv'
    BY <1>1, <1>2, SameProbe DEF Rules!Fail, Rules!Finish, Rules!Round, Rules!WorkerAt
  <2> QED
    BY <1>1, <1>2, <2>1, EndStep DEF Rules!Fail, Rules!measured, Rules!history
<1>3. CASE Rules!Go("answering") /\ ~stop
  <2> DEFINE new == IF worker.again THEN 0 ELSE 1
  <2>1. worker'.at = "answering" /\ worker'.key = worker.key /\ UNCHANGED Rules!shared
    BY <1>3 DEF Rules!Go, RuleInv, RuleTypes, Workers
  <2>2. asks' = [asks EXCEPT ![worker.key] = @ + new] /\ asked' = asked + new
    BY <1>1, <1>3 DEF Rules!Ask
  <2>3. RuleTypes'
    <3>1. worker' \in Workers
      BY <1>3 DEF Rules!Go, RuleInv, RuleTypes, Workers, Holding
    <3>2. asked' \in Nat /\ asks' \in [Rules!Keys -> Nat]
      <4>1. new \in Nat /\ asks \in [Rules!Keys -> Nat] /\ asked \in Nat
        BY DEF RuleInv, RuleTypes
      <4> HIDE DEF new
      <4>2. asks[worker.key] + new \in Nat /\ asked + new \in Nat
        BY <1>1, <4>1
      <4> QED
        BY <2>2, <4>1, <4>2
    <3> QED
      BY <1>1, <2>1, <3>1, <3>2 DEF Rules!shared, RuleInv, RuleTypes, Rules!measured
  <2>4. QueueInv' /\ HoldInv' /\ PendingInv'
    <3>1. UNCHANGED <<states, queue>>
      BY <2>1 DEF Rules!shared
    <3> QED
      BY <1>1, <2>1, <3>1 DEF RuleInv, QueueInv, HoldInv, PendingInv, Holding
  <2>5. ProbeInv'
    BY <1>1, <2>1, SameProbe
  <2>6. CloseInv'
    BY <1>1, <2>1 DEF RuleInv, CloseInv, Rules!Alive
  <2>7. ~Unasked' /\ \A h \in Rules!Keys : h # worker.key => asks'[h] = asks[h]
    BY <2>1, <2>2 DEF Unasked, RuleInv, RuleTypes, Workers
  <2>8. asks'[worker.key] <= 1
    BY <1>1, <2>2 DEF RuleInv, RuleTypes, Workers, AskInv, Unasked
  <2>9. AskInv'
    BY <1>1, <2>1, <2>7, <2>8 DEF RuleInv, AskInv, Rules!shared
  <2>10. Paid' \subseteq Paid \ {worker.key} /\ (~worker.again => worker.key \in Paid)
    BY <1>1, <2>1, <2>7 DEF Paid, Rules!shared, Unasked
  <2>11. BudgetInv'
    <3>1. CASE worker.again
      <4>1. asked' = asked /\ counts' = counts /\ Paid' \subseteq Paid
        BY <2>1, <2>2, <2>10, <3>1 DEF RuleInv, RuleTypes, Rules!shared
      <4> QED
        BY <4>1, PaidLess DEF RuleInv
    <3>2. CASE ~worker.again
      <4>1. /\ IsFiniteSet(Paid \ {worker.key})
            /\ Cardinality(Paid \ {worker.key}) = Cardinality(Paid) - 1
        BY <2>10, <3>2, FS_RemoveElement DEF RuleInv, BudgetInv
      <4> QED
        BY <2>1, <2>2, <2>10, <3>2, <4>1, PaidWithin, FS_CardinalityType
           DEF RuleInv, RuleTypes, Workers, BudgetInv, Rules!shared
    <3> QED
      BY <3>1, <3>2
  <2> QED
    BY <2>3, <2>4, <2>5, <2>6, <2>9, <2>11 DEF RuleInv
<1> QED
  BY <1>2, <1>3 DEF Rules!Ask

\* Answer keeps the invariant.
LEMMA AnswerStep ==
    ASSUME Rules!RuleAssumption, RuleInv, Rules!Answer
    PROVE  RuleInv'
<1>1. /\ worker.at = "answering" /\ worker.at \in Holding
      /\ UNCHANGED <<content, Rules!measured, stop, closer, asks, asked>>
  BY DEF Rules!Answer, Holding, Rules!history
<1>2. CASE Rules!Fail
  <2>1. ProbeInv'
    BY <1>1, <1>2, SameProbe DEF Rules!Fail, Rules!Finish, Rules!Round, Rules!WorkerAt
  <2> QED
    BY <1>1, <1>2, <2>1, EndStep DEF Rules!Fail, Rules!measured
<1>3. CASE Rules!Go("adding") \/ (worker' = [worker EXCEPT !.at = "asking", !.again = TRUE]
                            /\ UNCHANGED Rules!shared)
  <2>1. /\ worker'.key = worker.key /\ worker'.at \in Holding /\ UNCHANGED Rules!shared
        /\ worker'.at = "adding" \/ (worker'.at = "asking" /\ worker'.again = TRUE)
    BY <1>3 DEF Rules!Go, RuleInv, RuleTypes, Workers, Holding
  <2>2. ProbeInv'
    BY <1>1, <2>1, SameProbe
  <2>3. RuleTypes'
    BY <1>1, <1>3, <2>1 DEF Rules!Go, Rules!shared, RuleInv, RuleTypes, Workers, Rules!measured
  <2> QED
    BY <1>1, <2>1, <2>2, <2>3, MoveStep DEF Rules!shared, Unasked
<1> QED
  BY <1>2, <1>3 DEF Rules!Answer

\* Add keeps the invariant.
LEMMA AddStep ==
    ASSUME Rules!RuleAssumption, RuleInv, Rules!Add
    PROVE  RuleInv'
<1>1. /\ worker.at = "adding" /\ worker.at \in Holding /\ Rules!Finish
      /\ UNCHANGED <<content, Rules!measured, stop, closer, asks, asked>>
  BY DEF Rules!Add, Holding, Rules!history
<1>2. ProbeInv'
  BY <1>1, SameProbe DEF Rules!Finish, Rules!Round, Rules!WorkerAt
<1> QED
  BY <1>1, <1>2, EndStep DEF Rules!measured

\* What is measured begins when no container runs, and ends.
LEMMA MeasuredStep ==
    ASSUME Rules!RuleAssumption, RuleInv, NEW x \in MeasuredExecs,
           Rules!Begin(x) \/ Rules!Started(x) \/ Rules!End(x) \/ Rules!WindowCloses(x)
    PROVE  RuleInv'
<1>1. UNCHANGED <<content, states, queue, counts, worker, probe, stop, closer, asks, asked>>
  BY DEF Rules!Begin, Rules!Started, Rules!End, Rules!WindowCloses, Rules!shared, Rules!history
<1>2. RuleTypes'
  BY <1>1 DEF Rules!Begin, Rules!Started, Rules!End, Rules!WindowCloses, RuleInv, RuleTypes,
     Workers
<1>3. CloseInv'
  BY <1>1 DEF RuleInv, CloseInv, Rules!Alive
<1>4. CASE Rules!Begin(x)
  <2>1. probe # "running" /\ lock' = x /\ exec' = [exec EXCEPT ![x] = "starting"]
            /\ lock = "free"
    BY <1>4 DEF Rules!Begin, RuleInv, ProbeInv
  <2>2. ProbeInv'
    BY <1>1, <2>1 DEF RuleInv, RuleTypes, Workers, ProbeInv, Rules!RuleAssumption
  <2> QED
    BY <1>1, <1>2, <1>3, <2>2, FrameStep
<1>5. CASE Rules!Started(x)
  <2>1. lock = x /\ probe # "running" /\ lock' = "free"
    BY <1>5 DEF Rules!Started, RuleInv, ProbeInv, Rules!RuleAssumption
  <2>2. \A y \in MeasuredExecs : exec'[y] # "starting"
    BY <1>5, <2>1 DEF Rules!Started, RuleInv, RuleTypes, Workers, ProbeInv
  <2>3. ProbeInv'
    BY <1>1, <2>1, <2>2 DEF RuleInv, ProbeInv, Rules!RuleAssumption
  <2> QED
    BY <1>1, <1>2, <1>3, <2>3, FrameStep
<1>6. CASE Rules!End(x) \/ Rules!WindowCloses(x)
  <2>1. ProbeInv'
    BY <1>1, <1>6 DEF Rules!End, Rules!WindowCloses, RuleInv, RuleTypes, Workers, ProbeInv, Rules!Idle
  <2> QED
    BY <1>1, <1>2, <1>3, <2>1, FrameStep
<1> QED
  BY <1>4, <1>5, <1>6

\* close() stops the worker, or gives up waiting for it; a script is edited.
LEMMA CloseStep ==
    ASSUME Rules!RuleAssumption, RuleInv,
           Rules!CloseBegin \/ Rules!CloseTimeout \/ \E s \in Rules!Scripts : Rules!Edit(s)
    PROVE  RuleInv'
<1>1. UNCHANGED <<states, queue, counts, worker, Rules!measured, asks, asked>>
  BY DEF Rules!CloseBegin, Rules!CloseTimeout, Rules!Edit, Rules!shared, Rules!history
<1>2. ProbeInv'
  BY <1>1 DEF RuleInv, ProbeInv, Rules!Idle, Rules!measured
<1>3. CloseInv'
  BY <1>1 DEF Rules!CloseBegin, Rules!CloseTimeout, Rules!Edit, RuleInv, CloseInv, Rules!Alive
<1>4. content' \in [Rules!Scripts -> 0 .. MaxEdits]
  BY DEF Rules!CloseBegin, Rules!CloseTimeout, Rules!Edit, RuleInv, RuleTypes, Workers,
     Rules!RuleAssumption
<1>5. RuleTypes'
  BY <1>1, <1>4 DEF Rules!CloseBegin, Rules!CloseTimeout, Rules!Edit, RuleInv, RuleTypes,
     Workers, Rules!measured
<1> QED
  BY <1>1, <1>2, <1>3, <1>5, FrameStep

\* What is queued when close() ends is cancelled.
LEMMA CloseEndsStep ==
    ASSUME Rules!RuleAssumption, RuleInv, Rules!CloseEnds
    PROVE  RuleInv'
<1>1. /\ worker.at \in {"none", "gone", "dead"} /\ stop /\ queue' = <<>>
      /\ UNCHANGED <<content, counts, worker, Rules!measured, stop, asks, asked>>
  BY DEF Rules!CloseEnds, Rules!Alive, RuleInv, CloseInv, Rules!history
<1>2. \A k \in Rules!Keys : states[k] = "queued" <=> k \in Rules!Cancelled
  <2>1. Rules!Cancelled = {queue[i] : i \in 1 .. Len(queue)} \ {Rules!Discovery}
    BY DEF Rules!Cancelled, RuleInv, RuleTypes, Workers
  <2> QED
    BY <2>1, DiscoveryIsNoKey DEF RuleInv, QueueInv
<1>3. \A k \in Rules!Keys :
         /\ states[k] = "queued" => states'[k] = "settled"
         /\ states[k] # "queued" => states'[k] = states[k]
  BY <1>2 DEF Rules!CloseEnds
<1>4. RuleTypes'
  <2>1. states' \in [Rules!Keys -> {"none", "queued", "generating", "settled", "cold"}]
    BY DEF Rules!CloseEnds, RuleInv, RuleTypes
  <2> QED
    BY <1>1, <2>1 DEF RuleInv, RuleTypes, Rules!measured
<1>5. QueueInv'
  <2>1. Len(queue') = 0
    BY <1>1
  <2>2. \A k \in Rules!Keys : states'[k] # "queued"
    BY <1>3
  <2> QED
    BY <2>1, <2>2 DEF QueueInv
<1>6. HoldInv' /\ PendingInv'
  <2>1. worker' = worker /\ worker.at \notin Holding
    BY <1>1 DEF Holding
  <2>2. \A k \in Rules!Keys : states'[k] # "generating" /\ states'[k] # "queued"
    BY <1>3, <2>1 DEF RuleInv, HoldInv
  <2>3. HoldInv'
    BY <2>1, <2>2 DEF HoldInv
  <2>4. PendingInv'
    BY <2>1, <2>2 DEF PendingInv, Holding
  <2> QED
    BY <2>3, <2>4
<1>7. ProbeInv'
  BY <1>1, SameProbe
<1>8. AskInv' /\ Paid' \subseteq Paid
  BY <1>1, <1>3 DEF RuleInv, RuleTypes, Workers, AskInv, Paid, Unasked
<1>9. BudgetInv'
  BY <1>1, <1>8, PaidLess DEF RuleInv
<1>10. CloseInv'
  BY <1>1 DEF Rules!CloseEnds, CloseInv, Rules!Alive
<1> QED
  BY <1>4, <1>5, <1>6, <1>7, <1>8, <1>9, <1>10 DEF RuleInv

\* A key that is cold may be asked for again.
LEMMA CoolStep ==
    ASSUME Rules!RuleAssumption, RuleInv, NEW k \in Rules!Keys, Rules!Cool(k)
    PROVE  RuleInv'
<1>1. /\ states[k] = "settled" /\ states' = [states EXCEPT ![k] = "cold"]
      /\ asks' = [asks EXCEPT ![k] = 0]
      /\ UNCHANGED <<content, queue, counts, worker, Rules!measured, stop, closer, asked>>
  BY DEF Rules!Cool
<1>2. /\ states'[k] = "cold" /\ asks'[k] = 0
      /\ \A h \in Rules!Keys : h # k => states'[h] = states[h] /\ asks'[h] = asks[h]
  BY <1>1 DEF RuleInv, RuleTypes, Workers
<1>3. RuleTypes'
  BY <1>1 DEF RuleInv, RuleTypes, Workers, Rules!measured
<1>4. QueueInv'
  <2>1. \A i \in 1 .. Len(queue) : queue[i] # Rules!Discovery => queue[i] # k
            /\ queue[i] \in Rules!Keys
    <3>1. \A i \in 1 .. Len(queue) : queue[i] \in Rules!Keys \cup {Rules!Discovery}
      BY DEF RuleInv, RuleTypes
    <3>2. \A i \in 1 .. Len(queue) : queue[i] # Rules!Discovery => states[queue[i]] = "queued"
      BY DEF RuleInv, QueueInv
    <3> QED
      BY <1>1, <3>1, <3>2
  <2> QED
    BY <1>1, <1>2, <2>1 DEF RuleInv, QueueInv
<1>5. HoldInv' /\ PendingInv'
  BY <1>1, <1>2 DEF RuleInv, HoldInv, PendingInv
<1>6. ProbeInv' /\ CloseInv'
  BY <1>1 DEF RuleInv, ProbeInv, CloseInv, Rules!Idle, Rules!Alive, Rules!measured
<1>7. AskInv' /\ Paid' \subseteq Paid
  BY <1>1, <1>2 DEF RuleInv, AskInv, Paid, Unasked
<1>8. BudgetInv'
  BY <1>1, <1>7, PaidLess DEF RuleInv
<1> QED
  BY <1>3, <1>4, <1>5, <1>6, <1>7, <1>8 DEF RuleInv

-----------------------------------------------------------------------------
\* The invariant of the generator.
LEMMA RuleInvAlways == Rules!RuleAssumption => (Rules!Spec => []RuleInv)
<1> SUFFICES ASSUME Rules!RuleAssumption PROVE Rules!Spec => []RuleInv
  OBVIOUS
<1>1. Rules!Init => RuleInv
  BY RuleInvInit
<1>2. RuleInv /\ [Rules!Next]_(Rules!vars) => RuleInv'
  <2> SUFFICES ASSUME RuleInv, [Rules!Next]_(Rules!vars) PROVE RuleInv'
    OBVIOUS
  <2>1. CASE UNCHANGED Rules!vars
    <3>1. UNCHANGED <<content, states, queue, counts, worker, lock, exec, probe, stop, closer,
                      asks, asked>>
      BY <2>1 DEF Rules!vars, Rules!shared, Rules!measured, Rules!history
    <3>2. RuleTypes' /\ ProbeInv' /\ CloseInv'
      BY <3>1 DEF RuleInv, RuleTypes, Workers, ProbeInv, CloseInv, Rules!Idle, Rules!Alive
    <3> QED
      BY <3>1, <3>2, FrameStep
  <2> QED
    BY <2>1, EnqueueStep, DiscoverStep, GetStep, SearchStep, WaitStep, ReadStep, GenerateStep,
       AcquireStep, ProbeEndsStep, AskStep, AnswerStep, AddStep, MeasuredStep, CloseStep,
       CloseEndsStep, CoolStep DEF Rules!Next
<1> QED
  BY <1>1, <1>2, PTL DEF Rules!Spec

\* Grammars are learned beside measured executions, but for the windows that are being
\* closed, within bounds, until close() (generation.py, help_runner.py).
THEOREM GrammarsKeepOff == Rules!RuleAssumption => (Rules!Spec => []GeneratorKeepsOff)
<1> SUFFICES ASSUME Rules!RuleAssumption PROVE Rules!Spec => []GeneratorKeepsOff
  OBVIOUS
<1>1. ASSUME RuleInv PROVE Rules!GeneratorKeepsOff
  <2>1. Rules!ProbesRunAlone
    BY <1>1 DEF Rules!ProbesRunAlone, Rules!Measured, RuleInv, ProbeInv, Rules!Idle, Rules!RuleAssumption
  <2>2. Rules!ProviderIsSpared
    BY <1>1, FS_CardinalityType DEF Rules!ProviderIsSpared, RuleInv, RuleTypes, Workers,
       BudgetInv, AskInv,
       Rules!RuleAssumption
  <2>3. Rules!SettledAtClose
    BY <1>1 DEF Rules!SettledAtClose, RuleInv, CloseInv, ProbeInv, QueueInv, HoldInv,
       Rules!Alive, Holding
  <2> QED
    BY <2>1, <2>2, <2>3 DEF Rules!GeneratorKeepsOff
<1> QED
  BY <1>1, RuleInvAlways, PTL DEF GeneratorKeepsOff

-----------------------------------------------------------------------------
(* The memory timelines: who has run is watched, remembered or given up, and the  *)
(* calls of one task watch cgroups of which one is above the other.             *)

\* What a call watches has a directory above its home.
Watches(paths, c) == \E p \in paths : p \in Seq(STRING) /\ Memory!Under(CallHome[c], p)
OfCall(v, c) == v.start = ranAt[c].start /\ v.end = ranAt[c].end /\ Watches(v.paths, c)
Remembered(c) == ranAt[c].end # 0 /\ \E v \in windows : OfCall(v, c)

\* The clock is ahead of every run, and a run of its start.
ClockInv ==
    /\ now \in Nat /\ now # 0
    /\ ranAt \in [Calls -> [start : Nat, end : Nat]]
    /\ \A c \in Calls : /\ ranAt[c].start <= now /\ ranAt[c].end <= now
                        /\ ranAt[c].end # 0 => ranAt[c].start # 0

\* A call that is watched has a row that began when its task was attended to, is not
\* given up and has no answer yet; one whose task was attended to is watched, given
\* up or was remembered with its window.
MemoryOf(c) ==
    /\ DOMAIN row[c] = {"watched", "union", "paths", "points", "since"}
    /\ attended[c] \in Nat /\ attended[c] <= now
    /\ row[c].watched =>
          /\ c \notin unavailable /\ peak[c] = Memory!Begun
          /\ attended[c] # 0 => Watches(row[c].paths, c) /\ row[c].since = attended[c]
    /\ attended[c] # 0 => row[c].watched \/ Memory!GivenUp(c) \/ Remembered(c)
    /\ peak[c] = "eligible" => ranAt[c].end # 0

ShapeInv == DOMAIN row = Calls /\ DOMAIN peak = Calls /\ DOMAIN attended = Calls

\* The inductive invariant.
MemoryInv ==
    ClockInv /\ ShapeInv /\ (\A c \in Calls : MemoryOf(c)) /\ Memory!EligibleIsAlone

\* Two directories above a third one are one above the other.
LEMMA PrefixFacts ==
    ASSUME NEW p \in Seq(STRING), NEW q \in Seq(STRING), NEW r \in Seq(STRING)
    PROVE  /\ Memory!Under(p, p)
           /\ Memory!Under(p, q) /\ Memory!Under(q, p) => p = q
           /\ Memory!Under(r, p) /\ Memory!Under(r, q) =>
                 Memory!Under(p, q) \/ Memory!Under(q, p)
           /\ Memory!Under(r, q) /\ Memory!Under(q, p) => Memory!Under(r, p)
<1>1. ASSUME NEW s \in Seq(STRING), NEW t \in Seq(STRING)
      PROVE  Memory!Under(s, t) <=> Len(t) <= Len(s) /\ \A i \in 1 .. Len(t) : t[i] = s[i]
  BY DEF Memory!Under, Memory!IsPrefix
<1> QED
  BY <1>1

\* An environment that overlooks a call's task watches it.
LEMMA HomesAreWatched ==
    ASSUME Memory!PathAssumption, NEW c \in Calls, NEW paths,
           paths = {CallHome[c]} \/ paths \in Memory!Unions(CallHome[c]),
           Memory!Overlook(paths, c)
    PROVE  Watches(paths, c)
<1>1. CallHome[c] \in Seq(STRING) /\ ExecParent \in Seq(STRING)
  BY DEF Memory!PathAssumption
<1>2. \A p \in paths : p \in {CallHome[c], ExecParent}
  BY DEF Memory!Unions, Memory!Outermost
<1> QED
  BY <1>1, <1>2 DEF Watches, Memory!Overlook

\* Calls of one task watch a common cgroup.
LEMMA WatchedTogether ==
    ASSUME Memory!PathAssumption, NEW c \in Calls, NEW d \in Calls,
           Memory!Overlap({CallHome[c]}, {CallHome[d]}),
           NEW P, NEW Q, Watches(P, c), Watches(Q, d)
    PROVE  Memory!Overlap(P, Q)
<1>1. CallHome[c] \in Seq(STRING) /\ CallHome[d] \in Seq(STRING)
  BY DEF Memory!PathAssumption
<1>2. PICK p \in P : p \in Seq(STRING) /\ Memory!Under(CallHome[c], p)
  BY DEF Watches
<1>3. PICK q \in Q : q \in Seq(STRING) /\ Memory!Under(CallHome[d], q)
  BY DEF Watches
<1>4. Memory!Under(CallHome[c], CallHome[d]) \/ Memory!Under(CallHome[d], CallHome[c])
  BY DEF Memory!Overlap
<1>5. Memory!Under(p, q) \/ Memory!Under(q, p)
  BY <1>1, <1>2, <1>3, <1>4, PrefixFacts
<1> QED
  BY <1>5 DEF Memory!Overlap

\* A window never moves, and one that begins or ends does so now.
LEMMA RunsStep ==
    ASSUME ClockInv, Memory!Next
    PROVE  /\ ClockInv' /\ now <= now'
           /\ \A c \in Calls :
                 /\ \/ ranAt'[c].start = ranAt[c].start
                    \/ ranAt[c].start = 0 /\ ranAt'[c].start = now
                 /\ ranAt'[c].end = ranAt[c].end \/ (ranAt[c].end = 0 /\ ranAt'[c].end = now)
                 /\ ranAt[c].end # 0 => ranAt'[c] = ranAt[c]
<1>1. CASE UNCHANGED ranAt /\ now' \in {now, now + 1}
  BY <1>1 DEF ClockInv
<1>2. ASSUME NEW c \in Calls, Memory!Start(c)
      PROVE  /\ now' = now /\ ranAt' = [ranAt EXCEPT ![c].start = now]
             /\ ranAt[c].start = 0 /\ ranAt[c].end = 0
  BY <1>2 DEF Memory!Start, Memory!NotRun
<1>3. ASSUME NEW c \in Calls, Memory!End(c)
      PROVE  /\ now' = now /\ ranAt' = [ranAt EXCEPT ![c].end = now]
             /\ ranAt[c].start # 0 /\ ranAt[c].end = 0
  BY <1>3 DEF Memory!End, Memory!Running
<1>4. CASE \E c \in Calls : Memory!Start(c)
  BY <1>2, <1>4 DEF ClockInv
<1>5. CASE \E c \in Calls : Memory!End(c)
  BY <1>3, <1>5 DEF ClockInv
<1>6. ASSUME ~ \E c \in Calls : Memory!Start(c) \/ Memory!End(c)
      PROVE  UNCHANGED ranAt /\ now' \in {now, now + 1}
  BY <1>6 DEF Memory!Next, Memory!Hook, Memory!Begin, Memory!Bind, Memory!BindAgain,
     Memory!Complete, Memory!CompleteUntimed, Memory!Discard, Memory!Rebind, Memory!Poll,
     Memory!Miss
<1> QED
  BY <1>1, <1>4, <1>5, <1>6

\* A step of one call's timeline concerns that call.
LEMMA OneCall ==
    ASSUME MemoryInv, NEW c \in Calls, MemoryOf(c)',
           DOMAIN row' = Calls, DOMAIN peak' = Calls, DOMAIN attended' = Calls,
           UNCHANGED <<now, ranAt>>, windows \subseteq windows',
           \A d \in Calls \ {c} : /\ row'[d] = row[d] /\ peak'[d] = peak[d]
                                  /\ attended'[d] = attended[d]
                                  /\ d \in unavailable' <=> d \in unavailable
    PROVE  ShapeInv' /\ \A d \in Calls : MemoryOf(d)'
<1>1. ASSUME NEW d \in Calls \ {c} PROVE MemoryOf(d)'
  <2>1. Remembered(d) => Remembered(d)'
    BY DEF Remembered, OfCall
  <2>2. Memory!GivenUp(d) <=> Memory!GivenUp(d)'
    BY <1>1 DEF Memory!GivenUp
  <2>3. MemoryOf(d)
    BY DEF MemoryInv
  <2> QED
    BY <1>1, <2>1, <2>2, <2>3 DEF MemoryOf
<1> QED
  BY <1>1 DEF ShapeInv

\* A call that is begun, or begun anew.
LEMMA WatchStep ==
    ASSUME Memory!PathAssumption, MemoryInv, NEW c \in Calls, NEW paths, NEW union,
           Memory!Watch(c, paths, union),
           paths = {CallHome[c]} \/ paths \in Memory!Unions(CallHome[c]),
           DOMAIN peak' = Calls, peak'[c] = Memory!Begun,
           \A d \in Calls \ {c} : peak'[d] = peak[d],
           UNCHANGED <<now, ranAt, windows>>
    PROVE  ShapeInv' /\ \A d \in Calls : MemoryOf(d)'
<1>1. /\ row'[c].watched /\ row'[c].since = now /\ row'[c].paths = paths
      /\ DOMAIN row'[c] = {"watched", "union", "paths", "points", "since"}
      /\ attended'[c] = IF Memory!Overlook(paths, c) THEN now ELSE 0
      /\ c \notin unavailable'
  BY DEF Memory!Watch, MemoryInv, ShapeInv
<1>2. now \in Nat /\ now' = now
  BY DEF MemoryInv, ClockInv
<1>3. attended'[c] # 0 => Watches(row'[c].paths, c) /\ attended'[c] = now
  BY <1>1, HomesAreWatched
<1>4. peak'[c] # "eligible"
  BY DEF Memory!Begun
<1>5. MemoryOf(c)'
  BY <1>1, <1>2, <1>3, <1>4 DEF MemoryOf
<1>6. /\ DOMAIN row' = Calls /\ DOMAIN attended' = Calls
      /\ \A d \in Calls \ {c} : /\ row'[d] = row[d] /\ attended'[d] = attended[d]
                                /\ d \in unavailable' <=> d \in unavailable
  BY DEF Memory!Watch, MemoryInv, ShapeInv
<1> QED
  BY <1>5, <1>6, OneCall

\* A call whose row is not there (any more) because it was given up.
LEMMA LostStep ==
    ASSUME MemoryInv, NEW c \in Calls,
           DOMAIN row' = Calls, DOMAIN peak' = Calls, UNCHANGED <<now, ranAt, attended>>,
           windows \subseteq windows',
           ~row'[c].watched, DOMAIN row'[c] = {"watched", "union", "paths", "points", "since"},
           Memory!GivenUp(c)', peak'[c] # "eligible",
           \A d \in Calls \ {c} : /\ row'[d] = row[d] /\ peak'[d] = peak[d]
                                  /\ d \in unavailable' <=> d \in unavailable
    PROVE  ShapeInv' /\ \A d \in Calls : MemoryOf(d)'
<1>1. MemoryOf(c)' /\ DOMAIN attended' = Calls
  <2>1. MemoryOf(c) /\ attended' = attended /\ now' = now
    BY DEF MemoryInv
  <2> QED
    BY <2>1 DEF MemoryOf, MemoryInv, ShapeInv
<1> QED
  BY <1>1, OneCall

\* Every step keeps what is known of each call.
LEMMA RowsStep ==
    ASSUME Memory!PathAssumption, MemoryInv, Memory!Next
    PROVE  ShapeInv' /\ \A c \in Calls : MemoryOf(c)'
<1>0. /\ \A c \in Calls : ranAt[c].end # 0 => ranAt'[c] = ranAt[c]
      /\ now <= now' /\ now \in Nat /\ now' \in Nat
  BY RunsStep DEF MemoryInv, ClockInv
<1> USE DEF ShapeInv
<1>1. ASSUME NEW c \in Calls, NEW paths, NEW union, Memory!Activate(c, paths, union),
             paths = {CallHome[c]} \/ paths \in Memory!Unions(CallHome[c]),
             DOMAIN peak' = Calls, peak'[c] = Memory!Begun,
             \A d \in Calls \ {c} : peak'[d] = peak[d],
             UNCHANGED <<now, ranAt, windows>>
      PROVE  ShapeInv' /\ \A d \in Calls : MemoryOf(d)'
  <2>1. CASE Memory!Watch(c, paths, union)
    BY <1>1, <2>1, WatchStep
  <2>2. CASE /\ row' = [row EXCEPT ![c] = Memory!NoRow]
             /\ unavailable' = unavailable \cup {c} /\ attended' = attended
    <3>1. peak'[c] # "eligible" /\ Memory!GivenUp(c)'
      BY <1>1, <2>2 DEF Memory!Begun, Memory!GivenUp
    <3>2. /\ DOMAIN row' = Calls /\ row'[c] = Memory!NoRow
          /\ \A d \in Calls \ {c} : /\ row'[d] = row[d]
                                    /\ d \in unavailable' <=> d \in unavailable
      BY <2>2 DEF MemoryInv
    <3>3. /\ ~row'[c].watched
          /\ DOMAIN row'[c] = {"watched", "union", "paths", "points", "since"}
      BY <3>2 DEF Memory!NoRow
    <3> QED
      BY <1>1, <2>2, <3>1, <3>2, <3>3, LostStep
  <2> QED
    BY <1>1, <2>1, <2>2 DEF Memory!Activate
<1>2. ASSUME NEW c \in Calls, Memory!Hook(c)
      PROVE  ShapeInv' /\ \A d \in Calls : MemoryOf(d)'
  <2>1. /\ DOMAIN peak' = Calls /\ peak'[c] = Memory!Begun
        /\ \A d \in Calls \ {c} : peak'[d] = peak[d]
        /\ UNCHANGED <<now, ranAt, windows>>
    BY <1>2 DEF Memory!Hook, MemoryInv
  <2>2. CASE Memory!Activate(c, {CallHome[c]}, FALSE)
    BY <1>1, <2>1, <2>2
  <2>3. peak[c] = Memory!Unlabelled /\ ~row[c].watched /\ MemoryOf(c)
    BY <1>2 DEF Memory!Hook, MemoryInv, MemoryOf, Memory!Unlabelled, Memory!Begun
  <2>4. ASSUME UNCHANGED <<row, attended>>, unavailable' \in {unavailable, unavailable \cup {c}}
        PROVE  ShapeInv' /\ \A d \in Calls : MemoryOf(d)'
    <3>1. MemoryOf(c)'
      BY <2>1, <2>3, <2>4 DEF MemoryOf, Memory!GivenUp, Remembered, OfCall,
         Memory!Unlabelled, Memory!Begun
    <3> QED
      BY <2>1, <2>4, <3>1, OneCall DEF MemoryInv
  <2> QED
    BY <1>2, <2>2, <2>4 DEF Memory!Hook
<1>3. ASSUME NEW c \in Calls, Memory!Begin(c) \/ Memory!Bind(c) \/ Memory!BindAgain(c)
      PROVE  ShapeInv' /\ \A d \in Calls : MemoryOf(d)'
  <2>1. peak' = peak /\ peak[c] = Memory!Begun /\ UNCHANGED <<now, ranAt, windows>>
    BY <1>3 DEF Memory!Begin, Memory!Bind, Memory!BindAgain
  <2>2. CASE Memory!Begin(c)
    BY <1>1, <2>1, <2>2 DEF Memory!Begin, MemoryInv
  <2>3. CASE Memory!Bind(c)
    BY <1>1, <2>1, <2>3 DEF Memory!Bind, MemoryInv
  <2>4. CASE Memory!BindAgain(c)
    BY <2>1, <2>4, WatchStep DEF Memory!BindAgain, MemoryInv
  <2> QED
    BY <1>3, <2>2, <2>3, <2>4
<1>4. ASSUME NEW c \in Calls, Memory!Start(c) \/ Memory!End(c)
      PROVE  ShapeInv' /\ \A d \in Calls : MemoryOf(d)'
  <2>1. UNCHANGED <<now, row, unavailable, windows, peak, attended>>
    BY <1>4 DEF Memory!Start, Memory!End
  <2>2. ASSUME NEW d \in Calls PROVE MemoryOf(d)'
    <3>1. Remembered(d) => Remembered(d)'
      BY <1>0, <2>1 DEF Remembered, OfCall
    <3>2. MemoryOf(d) /\ (Memory!GivenUp(d) <=> Memory!GivenUp(d)')
      BY <2>1 DEF MemoryInv, Memory!GivenUp
    <3>3. ranAt[d].end # 0 => ranAt'[d].end # 0
      BY <1>0
    <3> QED
      BY <2>1, <3>1, <3>2, <3>3 DEF MemoryOf
  <2> QED
    BY <2>1, <2>2 DEF MemoryInv
<1>5. ASSUME NEW c \in Calls, Memory!Complete(c)
      PROVE  ShapeInv' /\ \A d \in Calls : MemoryOf(d)'
  <2>1. /\ UNCHANGED <<now, ranAt, attended>> /\ windows \subseteq windows'
        /\ DOMAIN row' = Calls /\ DOMAIN peak' = Calls /\ row'[c] = Memory!NoRow
        /\ \A d \in Calls \ {c} : /\ row'[d] = row[d] /\ peak'[d] = peak[d]
                                  /\ d \in unavailable' <=> d \in unavailable
    BY <1>5 DEF Memory!Complete, Memory!Remember, MemoryInv
  <2>2. /\ ~row'[c].watched
        /\ DOMAIN row'[c] = {"watched", "union", "paths", "points", "since"}
    BY <2>1 DEF Memory!NoRow
  <2>3. CASE ~row[c].watched
    <3>1. Memory!GivenUp(c)' /\ peak'[c] # "eligible"
      BY <1>5, <2>3 DEF Memory!Complete, Memory!GivenUp, MemoryInv
    <3> QED
      BY <2>1, <2>2, <3>1, LostStep
  <2>4. CASE row[c].watched
    <3>0. MemoryOf(c)
      BY DEF MemoryInv
    <3>1. PICK v \in windows' :
             v = [paths |-> row[c].paths, start |-> ranAt[c].start, end |-> ranAt[c].end]
      BY <1>5, <2>4 DEF Memory!Complete, Memory!Remember
    <3>2. attended[c] # 0 => Watches(row[c].paths, c)
      BY <2>4, <3>0 DEF MemoryOf
    <3>3. ranAt[c].end # 0
      BY <1>5 DEF Memory!Complete
    <3>4. attended'[c] # 0 => Remembered(c)'
      BY <2>1, <3>1, <3>2, <3>3 DEF Remembered, OfCall
    <3>5. MemoryOf(c)'
      BY <2>1, <2>2, <3>0, <3>3, <3>4 DEF MemoryOf
    <3> QED
      BY <2>1, <3>5, OneCall DEF MemoryInv
  <2> QED
    BY <2>3, <2>4
<1>6. ASSUME NEW c \in Calls,
             \/ Memory!CompleteUntimed(c) \/ Memory!Discard(c)
             \/ \E p \in Memory!Homes : Memory!Rebind(c, p)
      PROVE  ShapeInv' /\ \A d \in Calls : MemoryOf(d)'
  <2>1. /\ UNCHANGED <<now, windows, ranAt, attended>>
        /\ row' = [row EXCEPT ![c] = Memory!NoRow]
    BY <1>6 DEF Memory!CompleteUntimed, Memory!Discard, Memory!Rebind
  <2>2. \/ /\ unavailable' = unavailable \ {c}
           /\ \E answer \in {"untimed", "discarded"} : peak' = [peak EXCEPT ![c] = answer]
        \/ unavailable' = unavailable \cup {c} /\ peak' = peak /\ peak[c] = Memory!Begun
    BY <1>6 DEF Memory!CompleteUntimed, Memory!Discard, Memory!Rebind
  <2>3. Memory!GivenUp(c)' /\ peak'[c] # "eligible"
    BY <2>2 DEF MemoryInv, Memory!GivenUp, Memory!Begun
  <2>4. /\ DOMAIN row' = Calls /\ DOMAIN peak' = Calls /\ row'[c] = Memory!NoRow
        /\ \A d \in Calls \ {c} : /\ row'[d] = row[d] /\ peak'[d] = peak[d]
                                  /\ d \in unavailable' <=> d \in unavailable
    BY <2>1, <2>2 DEF MemoryInv
  <2>5. /\ ~row'[c].watched
        /\ DOMAIN row'[c] = {"watched", "union", "paths", "points", "since"}
    BY <2>4 DEF Memory!NoRow
  <2> QED
    BY <2>1, <2>3, <2>4, <2>5, LostStep
<1>7. CASE Memory!Poll \/ Memory!Miss
  <2>1. /\ UNCHANGED <<unavailable, windows, ranAt, peak, attended>>
        /\ now' = now + 1 /\ DOMAIN row' = Calls
    BY <1>7 DEF Memory!Poll, Memory!Miss, MemoryInv
  <2>2. ASSUME NEW c \in Calls
        PROVE  /\ DOMAIN row'[c] = DOMAIN row[c] /\ row'[c].watched = row[c].watched
               /\ row[c].watched => /\ row'[c].paths = row[c].paths
                                    /\ row'[c].since = row[c].since
    <3>0. DOMAIN row[c] = {"watched", "union", "paths", "points", "since"}
      BY DEF MemoryInv, MemoryOf
    <3>1. row'[c] = row[c] \/ row'[c] = [row[c] EXCEPT !.points = @ \cup {now + 1}]
      BY <1>7 DEF Memory!Miss, Memory!Poll
    <3> QED
      BY <3>0, <3>1
  <2>3. ASSUME NEW c \in Calls PROVE MemoryOf(c)'
    <3>1. MemoryOf(c)
      BY DEF MemoryInv
    <3>2. /\ Remembered(c) <=> Remembered(c)'
          /\ Memory!GivenUp(c) <=> Memory!GivenUp(c)'
      BY <2>1 DEF Remembered, OfCall, Memory!GivenUp
    <3>3. attended'[c] \in Nat /\ attended'[c] <= now'
      BY <1>0, <2>1, <3>1 DEF MemoryOf
    <3> QED
      BY <2>1, <2>2, <3>1, <3>2, <3>3 DEF MemoryOf
  <2> QED
    BY <2>1, <2>3 DEF MemoryInv
<1> QED
  BY <1>2, <1>3, <1>4, <1>5, <1>6, <1>7 DEF Memory!Next

\* Who was given up stays so until its task is attended to again.
LEMMA GivenUpStays ==
    ASSUME MemoryInv, Memory!Next, NEW d \in Calls, Memory!GivenUp(d),
           attended'[d] # 0, attended'[d] # now
    PROVE  Memory!GivenUp(d)'
<1> USE DEF MemoryInv, ShapeInv, Memory!GivenUp, Memory!Unlabelled, Memory!Begun
<1>1. ASSUME NEW c \in Calls, NEW paths, NEW union, Memory!Watch(c, paths, union)
      PROVE  c # d /\ (d \in unavailable => d \in unavailable')
  <2>1. attended'[c] \in {0, now}
    BY <1>1 DEF Memory!Watch
  <2> QED
    BY <1>1, <2>1 DEF Memory!Watch
<1>2. ASSUME NEW c \in Calls, NEW paths, NEW union, Memory!Activate(c, paths, union)
      PROVE  d \in unavailable => d \in unavailable'
  BY <1>1, <1>2 DEF Memory!Activate
<1>3. ASSUME NEW c \in Calls,
             Memory!Hook(c) \/ Memory!Begin(c) \/ Memory!Bind(c) \/ Memory!BindAgain(c)
      PROVE  Memory!GivenUp(d)'
  <2>1. d \in unavailable => d \in unavailable'
    BY <1>1, <1>2, <1>3 DEF Memory!Hook, Memory!Begin, Memory!Bind, Memory!BindAgain
  <2>2. peak[d] \in {"unavailable", "untimed", "discarded"} => peak'[d] = peak[d]
    BY <1>3 DEF Memory!Hook, Memory!Begin, Memory!Bind, Memory!BindAgain
  <2> QED
    BY <2>1, <2>2
<1>4. ASSUME NEW c \in Calls,
             Memory!Complete(c) \/ Memory!CompleteUntimed(c) \/ Memory!Discard(c)
      PROVE  Memory!GivenUp(d)'
  <2>1. MemoryOf(d)
    OBVIOUS
  <2> QED
    BY <1>4, <2>1 DEF Memory!Complete, Memory!CompleteUntimed, Memory!Discard, MemoryOf
<1>5. ASSUME NEW c \in Calls,
             \/ Memory!Start(c) \/ Memory!End(c) \/ \E p \in Memory!Homes : Memory!Rebind(c, p)
      PROVE  Memory!GivenUp(d)'
  BY <1>5 DEF Memory!Start, Memory!End, Memory!Rebind
<1>6. CASE Memory!Poll \/ Memory!Miss
  BY <1>6 DEF Memory!Poll, Memory!Miss
<1> QED
  BY <1>3, <1>4, <1>5, <1>6 DEF Memory!Next

\* A task is attended to from now on, as before, or not any more; never for a call
\* that has its answer.
LEMMA AttendedStep ==
    ASSUME MemoryInv, Memory!Next, NEW d \in Calls
    PROVE  /\ attended'[d] \in {attended[d], now, 0}
           /\ peak[d] = "eligible" => attended'[d] = attended[d]
<1> USE DEF MemoryInv, ShapeInv, Memory!Unlabelled, Memory!Begun
<1>1. ASSUME NEW c \in Calls, NEW paths, NEW union, Memory!Watch(c, paths, union)
      PROVE  attended'[d] \in {attended[d], now, 0} /\ (c # d => attended'[d] = attended[d])
  BY <1>1 DEF Memory!Watch
<1>2. ASSUME NEW c \in Calls, NEW paths, NEW union, Memory!Activate(c, paths, union)
      PROVE  attended'[d] \in {attended[d], now, 0} /\ (c # d => attended'[d] = attended[d])
  BY <1>1, <1>2 DEF Memory!Activate
<1>3. ASSUME NEW c \in Calls,
             Memory!Hook(c) \/ Memory!Begin(c) \/ Memory!Bind(c) \/ Memory!BindAgain(c)
      PROVE  /\ attended'[d] \in {attended[d], now, 0}
             /\ peak[d] = "eligible" => attended'[d] = attended[d]
  <2>1. peak[c] # "eligible"
    BY <1>3 DEF Memory!Hook, Memory!Begin, Memory!Bind, Memory!BindAgain
  <2>2. attended'[d] \in {attended[d], now, 0} /\ (c # d => attended'[d] = attended[d])
    BY <1>1, <1>2, <1>3 DEF Memory!Hook, Memory!Begin, Memory!Bind, Memory!BindAgain
  <2> QED
    BY <2>1, <2>2
<1>4. ASSUME ~ \E c \in Calls : \/ Memory!Hook(c) \/ Memory!Begin(c) \/ Memory!Bind(c)
                                \/ Memory!BindAgain(c)
      PROVE  attended' = attended
  BY <1>4 DEF Memory!Next, Memory!Start, Memory!End, Memory!Complete, Memory!CompleteUntimed,
     Memory!Discard, Memory!Rebind, Memory!Poll, Memory!Miss
<1> QED
  BY <1>3, <1>4

\* What EligibleIsAlone says of two calls.
Shared(c, d) ==
    /\ Memory!Overlap({CallHome[c]}, {CallHome[d]}) /\ Memory!Together(c, d)
    /\ attended[c] # 0 /\ Memory!Attended(d, c)

\* An answer that is eligible stays true.
LEMMA EligibleStays ==
    ASSUME MemoryInv, Memory!Next, NEW c \in Calls, NEW d \in Calls, c # d,
           peak[c] = "eligible", Shared(c, d)'
    PROVE  Memory!GivenUp(d)'
<1>1. ranAt'[c] = ranAt[c] /\ ranAt[c].end # 0 /\ ranAt[c].end <= now
  BY RunsStep DEF MemoryInv, MemoryOf, ClockInv
<1>2. /\ ranAt'[d].start = ranAt[d].start \/ (ranAt[d].start = 0 /\ ranAt'[d].start = now)
      /\ ranAt'[d].end = ranAt[d].end \/ (ranAt[d].end = 0 /\ ranAt'[d].end = now)
  BY RunsStep DEF MemoryInv
<1>3. /\ ranAt[c].start \in Nat /\ ranAt[c].end \in Nat /\ now \in Nat
      /\ ranAt[d].start \in Nat /\ ranAt[d].end \in Nat
  BY DEF MemoryInv, ClockInv
<1>4. Memory!Together(c, d)
  BY <1>1, <1>2, <1>3 DEF Memory!Together, Shared
<1>5. attended'[d] # 0 /\ attended'[d] < ranAt[c].end /\ attended'[c] # 0
  BY <1>1 DEF Shared, Memory!Attended
<1>6. attended'[d] # now
  BY <1>1, <1>3, <1>5
<1>7. attended'[d] = attended[d] /\ attended'[c] = attended[c]
  BY <1>5, <1>6, AttendedStep
<1>8. Memory!GivenUp(d)
  BY <1>4, <1>5, <1>7 DEF MemoryInv, Memory!EligibleIsAlone, Memory!Attended, Shared
<1> QED
  BY <1>5, <1>6, <1>8, GivenUpStays

\* An answer becomes eligible when no other call is watched or remembered there.
LEMMA BecomesEligible ==
    ASSUME Memory!PathAssumption, MemoryInv, NEW c \in Calls, Memory!Complete(c),
           NEW d \in Calls, c # d, peak'[c] = "eligible", Shared(c, d)
    PROVE  Memory!GivenUp(d)
<1> USE DEF Shared
<1>0. MemoryOf(c) /\ MemoryOf(d)
  BY DEF MemoryInv
<1>1. row[c].watched /\ Memory!Exclusive(c, ranAt[c])
  BY DEF Memory!Complete, Memory!Eligible, MemoryInv, ShapeInv
<1>2. Watches(row[c].paths, c) /\ attended[d] # 0 /\ attended[d] < ranAt[c].end
  BY <1>0, <1>1 DEF MemoryOf, Memory!Attended
<1>3. ~row[d].watched
  <2> SUFFICES ASSUME row[d].watched PROVE FALSE
    OBVIOUS
  <2>1. Watches(row[d].paths, d) /\ row[d].since = attended[d]
    BY <1>0, <1>2 DEF MemoryOf
  <2>2. Memory!Overlap(row[c].paths, row[d].paths)
    BY <1>2, <2>1, WatchedTogether
  <2>3. ~(row[d].since < ranAt[c].end)
    BY <1>1, <2>2 DEF Memory!Exclusive, Memory!OverlapsActive
  <2> QED
    BY <1>2, <2>1, <2>3
<1>4. ~Remembered(d)
  <2> SUFFICES ASSUME ranAt[d].end # 0, NEW v \in windows, OfCall(v, d) PROVE FALSE
    BY DEF Remembered
  <2>1. Memory!Overlap(row[c].paths, v.paths)
    BY <1>2, WatchedTogether DEF OfCall
  <2>2. v.start < ranAt[c].end /\ v.end > ranAt[c].start
    BY DEF OfCall, Memory!Together
  <2> QED
    BY <1>1, <2>1, <2>2 DEF Memory!Exclusive, Memory!OverlapsCompleted
<1> QED
  BY <1>0, <1>2, <1>3, <1>4 DEF MemoryOf

\* Every step of the monitor keeps the invariant.
LEMMA MemoryInvStep ==
    ASSUME Memory!PathAssumption, MemoryInv, [Memory!Next]_(Memory!vars)
    PROVE  MemoryInv'
<1>1. CASE Memory!Next
  <2>1. ASSUME NEW c \in Calls, NEW d \in Calls, c # d, peak'[c] = "eligible", Shared(c, d)'
        PROVE  Memory!GivenUp(d)'
    <3>1. CASE peak[c] = "eligible"
      BY <1>1, <2>1, <3>1, EligibleStays
    <3>2. CASE peak[c] # "eligible"
      <4>1. Memory!Complete(c) /\ UNCHANGED <<ranAt, attended>>
        <5> USE DEF MemoryInv, ShapeInv
        <5>1. ASSUME NEW e \in Calls,
                     \/ Memory!Hook(e) \/ Memory!Begin(e) \/ Memory!Bind(e)
                     \/ Memory!BindAgain(e) \/ Memory!Start(e) \/ Memory!End(e)
                     \/ Memory!CompleteUntimed(e) \/ Memory!Discard(e)
                     \/ \E p \in Memory!Homes : Memory!Rebind(e, p)
              PROVE  peak'[c] # "eligible"
          <6>1. \/ peak' = peak
                \/ \E answer \in {Memory!Begun, "untimed", "discarded"} :
                      peak' = [peak EXCEPT ![e] = answer]
            BY <5>1 DEF Memory!Hook, Memory!Begin, Memory!Bind, Memory!BindAgain, Memory!Start,
               Memory!End, Memory!CompleteUntimed, Memory!Discard, Memory!Rebind
          <6> QED
            BY <3>2, <6>1 DEF Memory!Begun
        <5>2. Memory!Poll \/ Memory!Miss => peak'[c] # "eligible"
          BY <3>2 DEF Memory!Poll, Memory!Miss
        <5>3. ASSUME NEW e \in Calls, Memory!Complete(e)
              PROVE e = c /\ UNCHANGED <<ranAt, attended>>
          BY <2>1, <3>2, <5>3 DEF Memory!Complete
        <5> QED
          BY <1>1, <2>1, <5>1, <5>2, <5>3 DEF Memory!Next
      <4>2. Shared(c, d)
        BY <2>1, <4>1 DEF Shared, Memory!Together, Memory!Attended
      <4>3. Memory!GivenUp(d)
        BY <2>1, <4>1, <4>2, BecomesEligible
      <4>4. ranAt[c].end <= now /\ attended[d] < ranAt[c].end /\ attended[d] # 0
            /\ ranAt[c].end \in Nat /\ now \in Nat /\ attended[d] \in Nat
        BY <4>2 DEF Shared, Memory!Attended, MemoryInv, MemoryOf, ClockInv
      <4>5. attended'[d] # 0 /\ attended'[d] # now
        BY <4>1, <4>4
      <4> QED
        BY <1>1, <4>3, <4>5, GivenUpStays
    <3> QED
      BY <3>1, <3>2
  <2>2. Memory!EligibleIsAlone'
    BY <2>1 DEF Memory!EligibleIsAlone, Shared
  <2> QED
    BY <1>1, <2>2, RowsStep, RunsStep DEF MemoryInv
<1>2. CASE UNCHANGED Memory!vars
  BY <1>2 DEF Memory!vars, MemoryInv, ClockInv, ShapeInv, MemoryOf, Remembered, OfCall,
     Memory!EligibleIsAlone, Memory!GivenUp, Memory!Together, Memory!Attended
<1> QED
  BY <1>1, <1>2

\* A peak that is eligible was no other call's, for any calls and cgroups, any
\* cadence of the poller and any faults, as far as the other's task was watched for it
\* before the window was over (environment_memory.py).
THEOREM PeaksAreAlone == Memory!PathAssumption => (Memory!Spec => []Memory!EligibleIsAlone)
<1> SUFFICES ASSUME Memory!PathAssumption PROVE Memory!Spec => []Memory!EligibleIsAlone
  OBVIOUS
<1>1. Memory!Init => MemoryInv
  BY DEF Memory!Init, MemoryInv, ClockInv, ShapeInv, MemoryOf, Memory!EligibleIsAlone,
     Memory!NotRun, Memory!NoRow, Memory!Unlabelled
<1>2. MemoryInv /\ [Memory!Next]_(Memory!vars) => MemoryInv'
  BY MemoryInvStep
<1>3. MemoryInv => Memory!EligibleIsAlone
  BY DEF MemoryInv
<1> QED
  BY <1>1, <1>2, <1>3, PTL DEF Memory!Spec
=============================================================================
