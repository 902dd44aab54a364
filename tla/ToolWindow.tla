------------------------------- MODULE ToolWindow -------------------------------
(***************************************************************************)
(* The eBPF window of one tool call that has no collector of its own           *)
(* (monitoring/ebpf_tool.py under RealtimeToolMonitor): a lease on the events  *)
(* of a cgroup from the before-hook on, narrowed to the process that turns out *)
(* to be the call's, replaced when the call is found in another cgroup, and     *)
(* reduced at the completion to the CPU time of one process tree.              *)
(*                                                                           *)
(* The log is the kernel's: an event's position in it is its timestamp. A unit  *)
(* of CPU time is one sampling period, so each is sampled ("perf"), unless the   *)
(* sample is lost, and every event carries its process's counter. The call's     *)
(* processes are Tool, started by the container runtime, and what it forks;      *)
(* Other belongs to someone else in the same container.                         *)
(***************************************************************************)
EXTENDS Naturals, FiniteSets, FiniteSetsExt, SequencesExt

CONSTANTS Tool, Other, Kids,
          Gap,          \* the longest silence at a boundary, in events
          MaxLog,       \* bound: events of a behaviour
          MaxFaults     \* bound: lost events, windows that cannot be opened

GapAssumption == Gap \in Nat \ {0}

VARIABLES log, parent, alive, window, stage, hook, ended, verdict, faults

vars == <<log, parent, alive, window, stage, hook, ended, verdict, faults>>

Pids == {Tool, Other} \cup Kids
None == "none"
NoWindow == [open |-> FALSE, cgroup |-> None, shared |-> TRUE, initial |-> {},
             from |-> 0, late |-> FALSE]
Undecided == [eligible |-> FALSE, total |-> 0]

Init ==
    /\ log = <<>>
    /\ parent = [p \in Pids |-> None]
    /\ alive = {Other}
    /\ window = NoWindow
    /\ stage = "before"
    /\ hook = 0 /\ ended = 0
    /\ verdict = Undecided
    /\ faults = 0

(***************************************************************************)
(* The processes and the kernel's events.                                    *)
(***************************************************************************)
Room == Len(log) < MaxLog /\ stage \in {"running", "ended"}
Record(kind, p, child) ==
    \/ log' = Append(log, [kind |-> kind, pid |-> p, child |-> child, kept |-> TRUE]) /\ UNCHANGED faults
    \/ /\ faults < MaxFaults /\ faults' = faults + 1
       /\ log' = Append(log, [kind |-> kind, pid |-> p, child |-> child, kept |-> FALSE])

Tree == {p \in Pids : p = Tool \/ parent[p] = Tool \/ (parent[p] # None /\ parent[p] \in Kids
                                                      /\ parent[parent[p]] = Tool)}

\* The call's body runs only after its before-hook has been answered.
SpawnTool ==
    /\ stage = "running" /\ Tool \notin alive /\ parent[Tool] = None
    /\ alive' = alive \cup {Tool} /\ parent' = [parent EXCEPT ![Tool] = "runtime"]
    /\ UNCHANGED <<log, window, stage, hook, ended, verdict, faults>>

Fork(p, k) ==
    /\ Room /\ p \in alive /\ k \in Kids /\ parent[k] = None /\ p # k
    /\ parent' = [parent EXCEPT ![k] = p] /\ alive' = alive \cup {k}
    /\ Record("fork", p, k)
    /\ UNCHANGED <<window, stage, hook, ended, verdict>>

Run(p) ==
    /\ Room /\ p \in alive
    /\ Record("perf", p, None)
    /\ UNCHANGED <<parent, alive, window, stage, hook, ended, verdict>>

Exit(p) ==
    /\ Room /\ p \in alive \ {Other}
    /\ alive' = alive \ {p}
    /\ Record("exit", p, None)
    /\ UNCHANGED <<parent, window, stage, hook, ended, verdict>>

(***************************************************************************)
(* The window.                                                               *)
(***************************************************************************)
(* _existing_descendants.                                                     *)
Descendants(p) == {q \in alive : q = p \/ parent[q] = p
                                 \/ (parent[q] \in Pids /\ parent[parent[q]] = p)}

(* _KernelWindow.open, for the container (whose init has no descendants among    *)
(* the call's processes) or for the tree of p in cgroup cg.                      *)
Opened(cg, shared, initial, late) ==
    [open |-> TRUE, cgroup |-> cg, shared |-> shared, initial |-> initial,
     from |-> Len(log), late |-> late]
Failed(late) == [NoWindow EXCEPT !.from = Len(log), !.late = late]

TryOpen(cg, shared, initial, late) ==
    \/ window' = Opened(cg, shared, initial, late) /\ UNCHANGED faults
    \/ faults < MaxFaults /\ faults' = faults + 1 /\ window' = Failed(late)

(* begin: the before-hook, which knows the container or nothing.               *)
Begin ==
    /\ stage = "before" /\ stage' = "running"
    /\ hook' = Len(log)
    /\ \/ TryOpen("box", TRUE, {}, FALSE)
       \/ window' = Failed(FALSE) /\ UNCHANGED faults
    /\ UNCHANGED <<log, parent, alive, ended, verdict>>

(* bind_scope with the process of a docker exec. In the window's own cgroup it    *)
(* narrows the window, keeping the events since the hook; a process that has gone  *)
(* cannot be found in any cgroup, and loses the window. An authenticated execution *)
(* is not given up for it. The completion may be what brings the process.         *)
Narrowed == [window EXCEPT !.shared = FALSE, !.initial = Descendants(Tool)]

BindExec ==
    /\ stage \in {"running", "ended"} /\ parent[Tool] # None
    /\ window.cgroup # "own" /\ (window.open => window.shared)
    /\ IF Tool \notin alive THEN window' = Failed(TRUE) /\ UNCHANGED faults
       ELSE IF window.open THEN window' = Narrowed /\ UNCHANGED faults
       ELSE TryOpen("box", FALSE, Descendants(Tool), TRUE)
    /\ UNCHANGED <<log, parent, alive, stage, hook, ended, verdict>>

(* bind_scope with the execution's own cgroup: a new window, which starts late.  *)
BindOwn ==
    /\ stage = "running" /\ Tool \in alive /\ window.cgroup # "own"
    /\ TryOpen("own", FALSE, Descendants(Tool), TRUE)
    /\ UNCHANGED <<log, parent, alive, stage, hook, ended, verdict>>

(***************************************************************************)
(* The reduction.                                                            *)
(***************************************************************************)
Cpu(p, n) == Cardinality({m \in 1..n : log[m].kind = "perf" /\ log[m].pid = p})

(* The buffer of the lease: the events of its cgroup since it was taken.       *)
Delivered == {n \in DOMAIN log : /\ window.from < n /\ log[n].kept
                                 /\ window.cgroup = "own" => log[n].pid \in Tree}
Loss == \E n \in DOMAIN log : n > window.from /\ ~log[n].kept

(* _select_lineage: forks are followed in the order of their timestamps, up to   *)
(* the end of the action.                                                       *)
ForksOf(p, end) == {n \in Delivered : n <= end /\ log[n].kind = "fork" /\ log[n].child = p}
Followed(p, end) ==
    \/ p \in window.initial
    \/ \E n \in ForksOf(p, end) :
          \/ log[n].pid \in window.initial
          \/ \E m \in ForksOf(log[n].pid, end) : log[m].pid \in window.initial
Selected(start, end) == {n \in Delivered : start < n /\ n <= end /\ Followed(log[n].pid, end)}

(* _counter_delta_by_tid, _counter_window_complete: a process that was forked in   *)
(* the window counts from zero, another from its first sample, which must come     *)
(* soon; and a process that has not exited must have been seen near the end.       *)
Forked(sel) == {log[n].child : n \in {m \in sel : log[m].kind = "fork"}}
Points(sel, p) == {n \in sel : log[n].pid = p /\ log[n].kind \in {"perf", "exit"}}
Counted(sel) == {p \in Pids : Points(sel, p) # {}}

Covered(sel, p, start, end) ==
    LET points == Points(sel, p)
    IN  IF p \in Forked(sel) THEN TRUE
        ELSE Cardinality(points) >= 2 /\ Min(points) - start <= Gap
SeenToTheEnd(sel, p, end) ==
    LET last == Max(Points(sel, p)) IN log[last].kind = "exit" \/ end - last <= Gap

Complete_(sel, start, end) ==
    /\ Counted(sel) # {} /\ Forked(sel) \subseteq Counted(sel)
    /\ \A p \in Counted(sel) : Covered(sel, p, start, end) /\ SeenToTheEnd(sel, p, end)

Total(sel) ==
    MapThenSumSet(LAMBDA p : LET points == Points(sel, p)
                             IN  Cpu(p, Max(points)) - (IF p \in Forked(sel) THEN 0
                                                       ELSE Cpu(p, Min(points))),
                  Counted(sel))

(* complete: a window that was bound after the action had begun is never         *)
(* eligible, nor is one whose action has no usable clock.                       *)
NeverLate == FALSE
TooLate == window.late /\ hook < window.from
Start == Max({window.from, hook})

Reduced(clock) ==
    LET sel == Selected(Start, ended)
    IN  [eligible |-> /\ window.open /\ ~Loss /\ clock /\ ~TooLate /\ ended > Start
                      /\ ~window.shared /\ Complete_(sel, Start, ended),
         total |-> Total(sel)]

EndAction ==
    /\ stage = "running" /\ stage' = "ended"
    /\ ended' = Len(log)
    /\ UNCHANGED <<log, parent, alive, window, hook, verdict, faults>>

Complete ==
    /\ stage = "ended" /\ stage' = "complete"
    /\ \/ verdict' = Reduced(TRUE) /\ UNCHANGED faults
       \/ faults < MaxFaults /\ faults' = faults + 1 /\ verdict' = Reduced(FALSE)
    /\ window' = NoWindow
    /\ UNCHANGED <<log, parent, alive, hook, ended>>

Next ==
    \/ Begin \/ SpawnTool \/ BindExec \/ BindOwn \/ EndAction \/ Complete
    \/ \E p \in Pids : Run(p) \/ Exit(p) \/ \E k \in Kids : Fork(p, k)

Spec == Init /\ [][Next]_vars

(***************************************************************************)
(* Properties.                                                               *)
(***************************************************************************)
\* The CPU time that is learned is that of the call: all of what its processes
\* used until the action's end, but for the first sample of each process that
\* the window did not see forked, and nothing of the container's others.
CpuIsTheCalls ==
    verdict.eligible =>
        LET used == MapThenSumSet(LAMBDA p : Cpu(p, ended), Tree)
        IN  verdict.total <= used /\ used - verdict.total <= 1
=============================================================================
