----------------------------- MODULE ExecImages -----------------------------
(* What the collector makes of the events of one call: the events of its     *)
(* process tree, the exec images with their windows, the owners of samples   *)
(* and the I/O of each image. An event's position in the log is its          *)
(* timestamp, and an image is named by the position of its exec event.       *)
EXTENDS CommandRun

VARIABLE call     \* the call's processes and images, once it has ended

None == 0

Kept(kind) == {n \in DOMAIN log : log[n].kept /\ log[n].kind = kind}

(* _isolate_call_events: from the launcher's process down the known forks.   *)
ForkParent(p) ==
    LET forks == {n \in Kept("fork") : log[n].child = p}
    IN  IF forks = {} THEN None ELSE log[Min(forks)].pid

Ancestry[p \in Pids] ==
    IF p = Entry THEN <<p>>
    ELSE IF ForkParent(p) = None THEN <<p, None>>
    ELSE <<p>> \o Ancestry[ForkParent(p)]

NoCall == [line |-> <<>>, images |-> {}]

Isolate ==
    /\ Done /\ call = NoCall
    /\ LET line == [p \in Pids |-> Ancestry[p]]
           selected == {p \in Pids : line[p][Len(line[p])] = Entry}
       IN  call' = [line |-> line,
                    images |-> {n \in Kept("exec") : log[n].pid \in selected}]
    /\ UNCHANGED vars

Line(p) == call.line[p]
Selected(p) == p \in Pids /\ Line(p)[Len(Line(p))] = Entry
Events(kind) == {n \in Kept(kind) : Selected(log[n].pid)}

(* One image per exec event, until the process's next one or its exit.       *)
Images_ == call.images
Pid(x) == log[x].pid
Later(x) == {y \in Images_ : Pid(y) = Pid(x) /\ y > x}
Terminal(x) == Later(x) = {}
ExitEvent(p) == {n \in Events("exit") : log[n].pid = p}
HasCausalEnd(x) == ~Terminal(x) \/ ExitEvent(Pid(x)) # {}
End(x) == IF ~Terminal(x) THEN Min(Later(x))
          ELSE IF HasCausalEnd(x) THEN Max(ExitEvent(Pid(x)))
          ELSE Len(log)

NormalExit(x) == Terminal(x) /\ HasCausalEnd(x) /\ log[End(x)].status # Killed

(* _clause_at, _ancestor_clause_pid: the image that is active at a time, of  *)
(* the process or of its nearest ancestor that has one.                      *)
ActiveOn(p, t) == {x \in Images_ : Pid(x) = p /\ x <= t /\ t < End(x)}
ActiveAmong(line, t) ==
    LET hits == {k \in DOMAIN line : line[k] # None /\ ActiveOn(line[k], t) # {}}
    IN  IF hits = {} THEN None ELSE CHOOSE x \in ActiveOn(line[Min(hits)], t) : TRUE

(* _attribute: the boundaries and samples of an image carry its sequence     *)
(* number; those of a process that has not executed anything belong to the   *)
(* image that was active in its nearest ancestor.                            *)
Image(n) ==
    LET own == {x \in DOMAIN log : log[x].kind = "exec" /\ log[x].pid = log[n].pid /\ x <= n}
    IN  IF own = {} THEN None ELSE Max(own)

Owner(n) ==
    LET line == Line(log[n].pid)
    IN  IF Image(n) \in Images_ THEN Image(n)
        ELSE IF Image(n) # None THEN ActiveAmong(line, n)
        ELSE IF ActiveOn(log[n].pid, n) # {} \/ log[n].pid = Entry THEN None
        ELSE ActiveAmong(Tail(line), n)

Attributable == Events("perf") \cup Events("exec") \cup Events("exit")

(* A sample before the first image of a forked process is structural setup   *)
(* when no ancestor was active; every other unowned event is a gap.          *)
AttributionGaps == {n \in Attributable : Owner(n) = None /\ Image(n) # None}

(* _fork_io_baselines, _task_io_totals: the image's own process counts from  *)
(* its exec event, a process forked under it from zero, each up to its next  *)
(* boundary, which must come before the image's end.                         *)
ForkedUnder(x) == {log[n].child : n \in {m \in Events("fork") :
                                            ActiveAmong(Line(log[m].pid), m) = x}}
ForkTime(p) == Min({n \in Events("fork") : log[n].child = p})

Baseline(x, p) == IF p = Pid(x) THEN <<x, log[x].read>> ELSE <<ForkTime(p), 0>>
Endpoints(x, p) ==
    {n \in Events("exec") \cup Events("exit") :
        log[n].pid = p /\ Baseline(x, p)[1] < n /\ n <= End(x)}
Counted(x) == {Pid(x)} \cup ForkedUnder(x)

IoKnown(x) ==
    /\ \A n \in Attributable : Owner(n) = x => log[n].pid \in Counted(x)
    /\ \A p \in Counted(x) : Endpoints(x, p) # {}
IoTotalToTheEnd(x) ==
    MapThenSumSet(LAMBDA p : log[Max(Endpoints(x, p))].read - Baseline(x, p)[2], Counted(x))

IoTotal(x) ==
    MapThenSumSet(LAMBDA p : log[Min(Endpoints(x, p))].read - Baseline(x, p)[2], Counted(x))

(* _failed_exec_attempt_records: attempts with a complete argument vector.   *)
FailedAttempts == {n \in Events("failed") : ~log[n].cut}

Loss == Cardinality({n \in DOMAIN log : ~log[n].kept})
=============================================================================
