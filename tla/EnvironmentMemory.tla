---------------------------- MODULE EnvironmentMemory ----------------------------
(***************************************************************************)
(* The memory timelines of the calls that share a task's cgroups              *)
(* (monitoring/environment_memory.py). memory.current belongs to the whole     *)
(* environment, so a call may only take a peak from it when no other call ran  *)
(* there, and only from samples that are dense and start before it. A poller   *)
(* samples every watched environment; a call is watched from its before-hook,   *)
(* if the cgroup of its task is known by then, or from a scope that is found    *)
(* later, perhaps when its payload runs already or has ended; its registration   *)
(* may move it to the environment in which its execution is going to run. Its    *)
(* window is known when it is completed, which may be long after it has ended   *)
(* and in another order.                                                       *)
(* Paths are sequences of directory names. Time is counted in ticks of the     *)
(* sampler; Gap of them is the 0.15 s that a sample stays fresh.                *)
(***************************************************************************)
EXTENDS Naturals, FiniteSets, FiniteSetsExt, SequencesExt

CONSTANTS Calls,
          Home,         \* the cgroup of each call's task, as a path
          Parent,       \* the directory in which executions get their own cgroup
          Gap,
          RecentCap,    \* samples an environment keeps for later calls (16)
          MaxTime,      \* bound: the clock stops here
          MaxFaults     \* bound: failed reads, missed polls, evictions, repeated reports

PathAssumption == Home \in [Calls -> Seq(STRING)] /\ Parent \in Seq(STRING)
BoundAssumption == {Gap, RecentCap, MaxTime, MaxFaults} \subseteq Nat \ {0}

VARIABLES now,
          row,          \* _active: the timeline of each watched call
          unavailable,  \* _unavailable: the calls that lost theirs
          recent,       \* _recent: the last samples of each environment
          windows,      \* _completed_windows
          ran,          \* when each call's payload ran
          label,        \* what complete answered
          attended,     \* history: since when a call's task is watched for it; 0: it is not
          faults

vars == <<now, row, unavailable, recent, windows, ran, label, attended, faults>>

(* _nonoverlapping_paths, _paths_overlap.                                     *)
Under(p, q) == IsPrefix(q, p)
Outermost(paths) == {p \in paths : \A q \in paths \ {p} : ~Under(p, q)}
Overlap(P, Q) == \E p \in P, q \in Q : Under(p, q) \/ Under(q, p)
Overlook(paths, c) == \E p \in paths : Under(Home[c], p)

Homes == {Home[c] : c \in Calls}
Unions(p) == {{Parent}, Outermost({p, Parent})}
Environments == {{p} : p \in Homes} \cup UNION {Unions(p) : p \in Homes}

NoRow == [watched |-> FALSE, union |-> FALSE, paths |-> {}, points |-> {}, since |-> 0]
NotRun == [start |-> 0, end |-> 0]
Running(c) == ran[c].start # 0 /\ ran[c].end = 0
Unlabelled == "none"
Begun == "begun"

Init ==
    /\ now = 1
    /\ row = [c \in Calls |-> NoRow]
    /\ unavailable = {}
    /\ recent = [e \in Environments |-> {}]
    /\ windows = {}
    /\ ran = [c \in Calls |-> NotRun]
    /\ label = [c \in Calls |-> Unlabelled]
    /\ attended = [c \in Calls |-> 0]
    /\ faults = 0

Fails == faults < MaxFaults /\ faults' = faults + 1
LastOf(points) == {t \in points : Cardinality({u \in points : u >= t}) <= RecentCap}

(* _activate: the first sample is taken at once and joins those that the       *)
(* environment has; a row that cannot be read is not watched.                  *)
Watch(c, paths, union) ==
    LET points == recent[paths] \cup {now}
    IN  /\ recent' = [recent EXCEPT ![paths] = LastOf(points)]
        /\ row' = [row EXCEPT ![c] = [watched |-> TRUE, union |-> union, paths |-> paths,
                                      points |-> points, since |-> now]]
        /\ unavailable' = unavailable \ {c}
        /\ attended' = [attended EXCEPT ![c] = IF Overlook(paths, c) THEN now ELSE 0]

Activate(c, paths, union) ==
    \/ Watch(c, paths, union) /\ UNCHANGED faults
    \/ /\ Fails
       /\ row' = [row EXCEPT ![c] = NoRow]
       /\ unavailable' = unavailable \cup {c}
       /\ UNCHANGED <<recent, attended>>

(* RealtimeToolMonitor.begin: the before-hook. A call whose scope has no cgroup  *)
(* is not watched; one whose cgroup is not a task's is given up.                *)
Hook(c) ==
    /\ label[c] = Unlabelled
    /\ label' = [label EXCEPT ![c] = Begun]
    /\ \/ Activate(c, {Home[c]}, FALSE)
       \/ UNCHANGED <<row, unavailable, recent, attended, faults>>
       \/ unavailable' = unavailable \cup {c} /\ UNCHANGED <<row, recent, attended, faults>>
    /\ UNCHANGED <<now, windows, ran>>

(* begin, from bind_scope: a scope is found between the hook and the completion, *)
(* wherever the payload is. A row keeps its baseline.                           *)
Begin(c) ==
    /\ label[c] = Begun /\ ~row[c].watched
    /\ Activate(c, {Home[c]}, FALSE)
    /\ UNCHANGED <<now, windows, ran, label>>

(* bind_environment: the registration has found the execution's own cgroup.    *)
(* Charges made before the move stay in the old one, so both are watched, if the *)
(* old one is known.                                                          *)
Bind(c) ==
    /\ label[c] = Begun /\ ~row[c].union
    /\ \E paths \in Unions(Home[c]) : Activate(c, paths, TRUE)
    /\ UNCHANGED <<now, windows, ran, label>>

(* The same for a repeated report of the start: the row begins anew.           *)
BindAgain(c) ==
    /\ label[c] = Begun /\ row[c].union
    /\ Fails
    /\ \E paths \in Unions(Home[c]) : Watch(c, paths, TRUE)
    /\ UNCHANGED <<now, windows, ran, label>>

(* begin again, with a scope that belongs to another environment: the row is    *)
(* given up.                                                                  *)
Rebind(c, p) ==
    /\ label[c] = Begun /\ row[c].watched
    /\ ~\E q \in row[c].paths : Under(p, q)
    /\ Fails
    /\ row' = [row EXCEPT ![c] = NoRow]
    /\ unavailable' = unavailable \cup {c}
    /\ UNCHANGED <<now, recent, windows, ran, label, attended>>

(* The payload starts, watched or not, and ends.                               *)
Start(c) ==
    /\ ran[c] = NotRun /\ label[c] \in {Unlabelled, Begun}
    /\ ran' = [ran EXCEPT ![c].start = now]
    /\ UNCHANGED <<now, row, unavailable, recent, windows, label, attended, faults>>

End(c) ==
    /\ Running(c) /\ now > ran[c].start
    /\ ran' = [ran EXCEPT ![c].end = now]
    /\ UNCHANGED <<now, row, unavailable, recent, windows, label, attended, faults>>

(* poll: one sample for every environment and its watched calls.               *)
Poll ==
    /\ now < MaxTime /\ now' = now + 1
    /\ recent' = [e \in Environments |->
                     IF recent[e] = {} THEN {} ELSE LastOf(recent[e] \cup {now + 1})]
    /\ row' = [c \in Calls |->
                  IF row[c].watched THEN [row[c] EXCEPT !.points = @ \cup {now + 1}]
                  ELSE row[c]]
    /\ UNCHANGED <<unavailable, windows, ran, label, attended, faults>>

(* The poller is late, or a cgroup cannot be read.                             *)
Miss ==
    /\ now < MaxTime /\ now' = now + 1
    /\ Fails
    /\ UNCHANGED <<row, unavailable, recent, windows, ran, label, attended>>

(* complete, with the window of the call if its clocks could be matched.       *)
OverlapsActive(c, w) ==
    \E d \in Calls \ {c} :
        row[d].watched /\ Overlap(row[c].paths, row[d].paths) /\ row[d].since < w.end
OverlapsCompleted(c, w) ==
    \E v \in windows : Overlap(row[c].paths, v.paths) /\ v.start < w.end /\ v.end > w.start
Exclusive(c, w) == ~OverlapsActive(c, w) /\ ~OverlapsCompleted(c, w)

(* A plausible bug: only the windows that can give labels are remembered.     *)
RememberLabels(c, w) ==
    IF Exclusive(c, w)
    THEN windows \cup {[paths |-> row[c].paths, start |-> w.start, end |-> w.end]}
    ELSE windows

Remember(c, w) == windows \cup {[paths |-> row[c].paths, start |-> w.start, end |-> w.end]}

(* A fresh sample before the start, and none of the intervals too long.        *)
Dense(points, w) ==
    LET inside == {t \in points : w.start < t /\ t <= w.end}
        marks == inside \cup {w.start, w.end}
    IN  /\ \E t \in points : t <= w.start /\ w.start - t <= Gap
        /\ inside # {}
        /\ \A t \in marks : t = w.end \/ \E u \in marks : t < u /\ u - t <= Gap

Eligible(c, w) == Exclusive(c, w) /\ Dense(row[c].points, w)

Complete(c) ==
    /\ ran[c].end # 0 /\ label[c] \in {Unlabelled, Begun}
    /\ LET w == ran[c]
       IN  IF row[c].watched
           THEN /\ label' = [label EXCEPT ![c] = IF Eligible(c, w) THEN "eligible" ELSE "ineligible"]
                /\ windows' = Remember(c, w)
           ELSE label' = [label EXCEPT ![c] = "unavailable"] /\ UNCHANGED windows
    /\ row' = [row EXCEPT ![c] = NoRow]
    /\ unavailable' = unavailable \ {c}
    /\ UNCHANGED <<now, recent, ran, attended, faults>>

(* complete without a window: the plugin's clock is of another machine, or the  *)
(* event's duration is zero.                                                   *)
CompleteUntimed(c) ==
    /\ ran[c].end # 0 /\ label[c] \in {Unlabelled, Begun}
    /\ Fails
    /\ label' = [label EXCEPT ![c] = "untimed"]
    /\ row' = [row EXCEPT ![c] = NoRow]
    /\ unavailable' = unavailable \ {c}
    /\ UNCHANGED <<now, recent, windows, ran, attended>>

(* discard: too many calls are watched and this is the oldest.                 *)
Discard(c) ==
    /\ label[c] = Begun
    /\ Fails
    /\ recent' = [e \in Environments |->
                     IF row[c].watched /\ e = row[c].paths THEN {} ELSE recent[e]]
    /\ row' = [row EXCEPT ![c] = NoRow]
    /\ unavailable' = unavailable \ {c}
    /\ label' = [label EXCEPT ![c] = "discarded"]
    /\ UNCHANGED <<now, windows, ran, attended>>

Next ==
    \/ \E c \in Calls :
          \/ Hook(c) \/ Begin(c) \/ Bind(c) \/ BindAgain(c) \/ Start(c) \/ End(c)
          \/ Complete(c) \/ CompleteUntimed(c) \/ Discard(c)
          \/ \E p \in Homes : Rebind(c, p)
    \/ Poll \/ Miss

Spec == Init /\ [][Next]_vars

(***************************************************************************)
(* Properties.                                                               *)
(***************************************************************************)
\* The calls of which the monitor has lost sight: their scope changed, could
\* not be read or had no window, or they were evicted.
GivenUp(c) == c \in unavailable \/ label[c] \in {"unavailable", "untimed", "discarded"}

\* The task of d was watched for d before c's payload ended.
Attended(d, c) == attended[d] # 0 /\ attended[d] < ran[c].end

Together(c, d) ==
    /\ ran[d].start # 0 /\ ran[d].start < ran[c].end
    /\ ran[d].end = 0 \/ ran[d].end > ran[c].start

\* A peak that is learned belongs to one call: no other call of the same task
\* ran during the window of an eligible label, in whatever order the calls
\* were watched, moved, ended and completed; unless the monitor had given the other
\* one up, or did not watch its task for it until that window was over: such a call
\* had no cgroup, got it late, or was begun anew.
EligibleIsAlone ==
    \A c, d \in Calls :
        /\ c # d /\ label[c] = "eligible"
        /\ Overlap({Home[c]}, {Home[d]}) /\ Together(c, d)
        /\ attended[c] # 0 /\ Attended(d, c)
        => GivenUp(d)
=============================================================================
