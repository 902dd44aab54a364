---------------------------- MODULE LearningHistory ----------------------------
(***************************************************************************)
(* What the predictor has learned of executions, live and by replay.  A       *)
(* measured command leaves an eBPF artifact and a cpu row; its completion, or   *)
(* whoever knows that none will come, adds a memory row of the same clause,     *)
(* and a call; the trace keeps the memory row and the call.  The clause KB and  *)
(* the call KB take them at once, the lattice from a queue; snapshots of the     *)
(* three are written one by one.  A process without managed state starts from   *)
(* the snapshots and replays artifacts and traces over them, and every KB has   *)
(* to find out which of the replayed rows it holds.                            *)
(*                                                                         *)
(* A command is one clause.  KbWriter has the queue and StateStore the state    *)
(* directory in full.                                                         *)
(***************************************************************************)
EXTENDS Naturals, FiniteSets, SequencesExt, BagsExt

CONSTANTS
    Execs,       \* the executions
    Old,         \* those whose artifacts an old version left, without timestamps
    Identity,    \* argument vector and rounded timestamps of an execution's clause
    Absent,      \* executions that a metric is missing of
    Unreported,  \* calls whose duration OpenClaw did not report
    MaxLive,     \* how many executions run in a behaviour
    MaxCrashes

VARIABLES
    stage,       \* how far a live execution is
    artifacts,   \* executions whose artifact is in the directory
    traced,      \* executions whose trace has a row of this kind
    disk,        \* the snapshots
    up,          \* the process runs
    calls, clauses, lattice,  \* its knowledge bases
    queue,       \* rows on their way into the lattice
    waiting,     \* _pending_memory_targets
    saving,      \* captured snapshots that are not written yet
    crashes

vars == <<stage, artifacts, traced, disk, up, calls, clauses, lattice, queue, waiting, saving,
          crashes>>
process == <<up, calls, clauses, lattice, queue, waiting, saving>>

Kinds == {"cpu", "memory"}
Names == {"calls", "clauses", "lattice"}

Row(x, kind, values) == [exec |-> x, kind |-> kind, values |-> values]

\* A metric that was not measured is learned as a zero.
Learned(x) == Row(x, "cpu", IF x \in Absent THEN "imputed" ELSE "measured")
Remembered(x) == Row(x, "memory", "measured")
Zeroed(x) == Row(x, "memory", "imputed")

(***************************************************************************)
(* _ReplayHistory: the rows, how often an identity was seen, and the rows of  *)
(* a snapshot that had no identities.                                         *)
(***************************************************************************)
Blank == [rows |-> EmptyBag, counts |-> EmptyBag, legacy |-> {}]
\* Without a snapshot a KB starts empty.
Empty(name) == IF name = "clauses" THEN Blank ELSE EmptyBag

\* Mutant: the identity has what was measured.
ClauseIdentityWithValues(row) == <<Identity[row.exec], row.kind, row.values>>
\* _history_identity of a clause: not its values.
ClauseIdentity(row) == Identity[row.exec]

\* A call's; the trace keeps the window of a call that reported no duration.
CallIdentity(x, replayed) == <<x, replayed /\ x \in Unreported>>

ObserveClause(kb, row) ==
    [kb EXCEPT !.rows = BagAdd(@, row), !.counts = BagAdd(@, ClauseIdentity(row))]

\* Rows beyond those that were counted are bound to an anonymous row, or added.
MergeClauses(kb, rows) ==
    LET Take(done, row) ==
            LET id == ClauseIdentity(row)
                seen == BagAdd(done.seen, id)
                known == CopiesIn(id, seen) <= CopiesIn(id, kb.counts)
                anonymous == {r \in done.kb.legacy : Identity[r.exec] = Identity[row.exec]
                                                     /\ r.kind = row.kind}
                one == CHOOSE r \in anonymous : TRUE
            IN  [seen |-> seen,
                 kb |-> IF known THEN done.kb
                        ELSE IF anonymous # {}
                             THEN [done.kb EXCEPT !.legacy = @ \ {one},
                                                  !.counts = BagAdd(@, id)]
                        ELSE ObserveClause(done.kb, row)]
    IN  FoldLeft(Take, [seen |-> EmptyBag, kb |-> kb], rows).kb

\* The observed counts go with the snapshot; an old one has none.
RestoreClauses(snapshot) ==
    IF snapshot.counts = EmptyBag THEN [snapshot EXCEPT !.legacy = BagToSet(snapshot.rows)]
    ELSE snapshot

\* The lattice tells rows apart by identity and values.
LatticeKey(row) == <<Identity[row.exec], row.kind, row.values>>
MergeLattice(kb, rows) ==
    LET known == BagOfAll(LatticeKey, kb)
        Take(done, row) ==
            LET seen == BagAdd(done.seen, LatticeKey(row))
            IN  [seen |-> seen,
                 kb |-> IF CopiesIn(LatticeKey(row), seen) <= CopiesIn(LatticeKey(row), known)
                        THEN done.kb ELSE BagAdd(done.kb, row)]
    IN  FoldLeft(Take, [seen |-> EmptyBag, kb |-> kb], rows).kb

MergeCalls(kb, xs) ==
    kb (+) SetToBag({CallIdentity(x, TRUE) : x \in xs} \ BagToSet(kb))

(***************************************************************************)
(* Live executions.                                                          *)
(***************************************************************************)
Init ==
    /\ \E live \in SUBSET (Execs \ Old) :
         /\ Cardinality(live) = MaxLive
         /\ stage = [x \in Execs |-> IF x \in live THEN "ahead" ELSE "over"]
    /\ artifacts = Old
    /\ traced = [k \in {"memory", "call"} |-> {}]
    /\ LET legacy == [Blank EXCEPT !.rows = SetToBag({Row(x, "cpu", "measured") : x \in Old})]
       IN  \E known \in {Blank, legacy} :
             disk = [n \in Names |-> IF n = "clauses" THEN known ELSE Empty(n)]
    /\ up = FALSE /\ calls = EmptyBag /\ clauses = Blank /\ lattice = EmptyBag
    /\ queue = EmptyBag /\ waiting = {} /\ saving = <<>> /\ crashes = 0

\* The collector finishes and writes its artifact.
Measure(x) ==
    /\ up /\ stage[x] = "ahead"
    /\ stage' = [stage EXCEPT ![x] = "measured"]
    /\ artifacts' = artifacts \cup {x}
    /\ UNCHANGED <<traced, disk, process, crashes>>

\* The rest of finish_execution: both KBs get the cpu row.
Learn(x) ==
    /\ up /\ stage[x] = "measured"
    /\ stage' = [stage EXCEPT ![x] = "learned"]
    /\ clauses' = ObserveClause(clauses, Learned(x))
    /\ queue' = BagAdd(queue, Learned(x))
    /\ waiting' = waiting \cup {x}
    /\ UNCHANGED <<artifacts, traced, disk, up, calls, lattice, saving, crashes>>

\* observe_completion.  Deriving the memory labels may fail; a finalized
\* execution has a memory row already.
Complete(x, labelled) ==
    /\ up /\ stage[x] = "learned"
    /\ labelled => x \in waiting
    /\ stage' = [stage EXCEPT ![x] = IF labelled THEN "labelled" ELSE "completed"]
    /\ IF labelled
       THEN /\ clauses' = ObserveClause(clauses, Remembered(x))
            /\ queue' = BagAdd(queue, Remembered(x))
            /\ waiting' = waiting \ {x}
       ELSE UNCHANGED <<clauses, queue, waiting>>
    /\ calls' = BagAdd(calls, CallIdentity(x, FALSE))
    /\ UNCHANGED <<artifacts, traced, disk, up, lattice, saving, crashes>>

\* The trace gets the span of the completed call.
WriteTrace(x) ==
    /\ up /\ stage[x] \in {"labelled", "completed"}
    /\ stage' = [stage EXCEPT ![x] = "over"]
    /\ traced' = [k \in DOMAIN traced |->
                    IF k = "call" \/ stage[x] = "labelled" THEN traced[k] \cup {x} ELSE traced[k]]
    /\ UNCHANGED <<artifacts, disk, process, crashes>>

\* No completion is expected, or its runtime or the process ends: the memory of
\* the clause counts as zero.  (No completion of x is under way: abort and a
\* drained runtime see to that.)
Finalize(x) ==
    /\ up /\ x \in waiting
    /\ clauses' = ObserveClause(clauses, Zeroed(x))
    /\ queue' = BagAdd(queue, Zeroed(x))
    /\ waiting' = waiting \ {x}
    /\ UNCHANGED <<stage, artifacts, traced, disk, up, calls, lattice, saving, crashes>>

\* The writer publishes what is queued.
ApplyQueue ==
    /\ up /\ queue # EmptyBag
    /\ lattice' = lattice (+) queue
    /\ queue' = EmptyBag
    /\ UNCHANGED <<stage, artifacts, traced, disk, up, calls, clauses, waiting, saving, crashes>>

\* _persist_kb_snapshots: what changed is captured together and written one after
\* the other.
Capture ==
    /\ up /\ saving = <<>>
    /\ saving' = SelectSeq(<<<<"calls", calls>>, <<"clauses", clauses>>, <<"lattice", lattice>>>>,
                           LAMBDA s : s[2] # disk[s[1]])
    /\ UNCHANGED <<stage, artifacts, traced, disk, up, calls, clauses, lattice, queue, waiting,
                   crashes>>

WriteSnapshot(ok) ==
    /\ up /\ saving # <<>>
    /\ disk' = IF ok THEN [disk EXCEPT ![saving[1][1]] = saving[1][2]] ELSE disk
    /\ saving' = SubSeq(saving, 2, Len(saving))
    /\ UNCHANGED <<stage, artifacts, traced, up, calls, clauses, lattice, queue, waiting, crashes>>

(***************************************************************************)
(* Restarts.                                                                 *)
(***************************************************************************)
\* Nobody goes on with the executions of a dead process.
Crash ==
    /\ up /\ crashes < MaxCrashes
    /\ crashes' = crashes + 1
    /\ stage' = [x \in Execs |-> IF stage[x] = "ahead" THEN "ahead" ELSE "over"]
    /\ up' = FALSE
    /\ calls' = EmptyBag /\ clauses' = Blank /\ lattice' = EmptyBag
    /\ queue' = EmptyBag /\ waiting' = {} /\ saving' = <<>>
    /\ UNCHANGED <<artifacts, traced, disk>>

\* What artifacts and traces give, artifacts first.
Replayed ==
    LET Cpu(x) == Row(x, "cpu", "measured")
        Unmeasured(x) == Row(x, "cpu", "absent")
        xs == SetToSeq(artifacts)
        ms == SetToSeq(traced["memory"])
    IN  [i \in DOMAIN xs |-> IF xs[i] \in Absent THEN Unmeasured(xs[i]) ELSE Cpu(xs[i])]
            \o [i \in DOMAIN ms |-> Remembered(ms[i])]

\* _from_traces without a state.json.
Start ==
    /\ ~up
    /\ up' = TRUE
    /\ clauses' = MergeClauses(RestoreClauses(disk["clauses"]), Replayed)
    /\ lattice' = MergeLattice(disk["lattice"], Replayed)
    /\ calls' = MergeCalls(disk["calls"], traced["call"])
    /\ UNCHANGED <<stage, artifacts, traced, disk, queue, waiting, saving, crashes>>

Next ==
    \/ \E x \in Execs : \/ Measure(x) \/ Learn(x) \/ Complete(x, TRUE) \/ Complete(x, FALSE)
                        \/ WriteTrace(x) \/ Finalize(x)
    \/ ApplyQueue \/ Capture \/ WriteSnapshot(TRUE) \/ WriteSnapshot(FALSE)
    \/ Crash \/ Start

Spec == Init /\ [][Next]_vars

TypeOK ==
    /\ DOMAIN stage = Execs /\ artifacts \subseteq Execs /\ waiting \subseteq Execs
    /\ \A r \in BagToSet(clauses.rows (+) lattice (+) queue) : r.exec \in Execs /\ r.kind \in Kinds

(***************************************************************************)
(* Properties.                                                               *)
(***************************************************************************)
\* How many rows of this identity and kind there are.
Held(rows, id, kind) ==
    LET Of(row) == <<Identity[row.exec], row.kind>>
    IN  CopiesIn(<<id, kind>>, BagOfAll(Of, rows))
Sharing(xs, id) == Cardinality({x \in xs : Identity[x] = id})

\* Executions whose cpu row and whose memory row the process knows for certain.
WithArtifact == {x \in artifacts : stage[x] # "measured"}
Labelled == traced["memory"] \cup {x \in Execs : stage[x] = "labelled"}

HoldsEachOnce(rows, excepted) ==
    \A id \in {Identity[x] : x \in Execs \ excepted} :
        /\ Held(rows, id, "cpu") = Sharing(WithArtifact, id)
        /\ Held(rows, id, "memory") \in Sharing(Labelled, id) .. Sharing(WithArtifact, id)

\* However live learning, lost queues, torn sets of snapshots, crashes and replays
\* are mixed, a running process holds each execution's measurements once: never
\* twice, and none that the artifacts and traces remember is missing.  Two known
\* exceptions: the lattice and executions that a metric was missing of, and calls
\* without a reported duration.
EachHeldOnce ==
    up => /\ HoldsEachOnce(clauses.rows, {})
          /\ HoldsEachOnce(lattice (+) queue, Absent)
          /\ \A x \in Execs \ Unreported :
               /\ CopiesIn(CallIdentity(x, FALSE), calls) <= 1
               /\ x \in traced["call"] => BagIn(CallIdentity(x, FALSE), calls)

\* What merge_historical of the lattice says: "repeated executions ... remain
\* distinct without double-counting snapshot-plus-trace startup input".
NothingCountedTwice == up => HoldsEachOnce(lattice (+) queue, {})
=============================================================================
