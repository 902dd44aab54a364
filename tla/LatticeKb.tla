------------------------------- MODULE LatticeKb -------------------------------
(***************************************************************************)
(* The lattice of a knowledge base (tool_time): measured clauses make nodes,  *)
(* subsets of their features that keep the core, and a node holds the samples   *)
(* of every clause whose features contain it.  The batch builder makes the      *)
(* nodes of a whole observation log.  Online, the writer extends a fork with   *)
(* the rows of a batch and prepares the state for when all of them are past;   *)
(* a query moves the rows that ended before it into the log, and installs the  *)
(* prepared state, extends an older one or builds again.                       *)
(*                                                                         *)
(* A row stands for its sample; statistics, shrinkage and the choice of a node  *)
(* are functions of the samples, their grouping, the order and the parents that  *)
(* are modelled.  Times are ticks.                                             *)
(***************************************************************************)
EXTENDS Naturals, FiniteSets, SequencesExt

CONSTANTS
    Rows,        \* the clauses that are measured
    Corpus,      \* those that training delivers, the others complete online
    Argv,        \* the argument vector of a row, a number
    Features,    \* the features, numbers, of an argument vector
    Core,        \* those that every node of it keeps
    Views,       \* the targets that have a lattice each
    Measured,    \* the views a row has a value for
    MaxOptional, \* max_optional_features
    Times,
    NoVersion    \* no maintained version

VARIABLES
    end,         \* when a row ended, 0 before
    queue,       \* rows that wait for the writer
    live,        \* the LatticeTimeKB that queries ask
    candidate    \* the writer's fork: what it took and the fork, or <<>>

vars == <<end, queue, live, candidate>>

(***************************************************************************)
(* The batch builder.                                                        *)
(***************************************************************************)
Before(r, q) == end[r] < end[q] \/ (end[r] = end[q] /\ Argv[r] < Argv[q])

\* The rows by sort key, equals in the order of delivery.
Ordered(rows) ==
    LET Precedes(i, j) == Before(rows[i], rows[j]) \/ (~Before(rows[j], rows[i]) /\ i < j)
        at == SetToSortSeq(DOMAIN rows, Precedes)
    IN  [k \in DOMAIN rows |-> rows[at[k]]]

\* Smaller sets first, those of one size as combinations() yields them.
Sooner(m, n) ==
    \/ Cardinality(m) < Cardinality(n)
    \/ Cardinality(m) = Cardinality(n) /\ m # n /\ Min(SymDiff(m, n)) \in m

\* The nodes an argument vector generates: few optional features, or all.
Context ==
    [a \in DOMAIN Features |->
        SetToSortSeq({n \in SUBSET Features[a] :
                        /\ Core[a] \subseteq n
                        /\ n = Features[a] \/ Cardinality(n \ Core[a]) <= MaxOptional}, Sooner)]

Generated(samples) ==
    LET Add(made, r) == made \o SelectSeq(Context[Argv[r]], LAMBDA n : ~Contains(made, n))
    IN  FoldLeft(Add, <<>>, samples)

Covers(r, n) == n \subseteq Features[Argv[r]]
Matching(samples, n) == SelectSeq(samples, LAMBDA r : Covers(r, n))
FirstCover(samples, n) == SelectInSeq(samples, LAMBDA r : Covers(r, n))

Below(m, n) == m \subseteq n /\ m # n
\* The largest-cardinality layer of the strict subsets.
ImmediateParents(nodes, n) ==
    LET below == {m \in nodes : Below(m, n)}
    IN  {m \in below : \A o \in below : Cardinality(o) <= Cardinality(m)}

Build(samples) ==
    LET made == Generated(samples)
        nodes == ToSet(made)
    IN  [samples |-> samples,
         made    |-> made,
         first   |-> [n \in nodes |-> FirstCover(samples, n)],
         values  |-> [n \in nodes |-> Matching(samples, n)],
         parents |-> [n \in nodes |-> ImmediateParents(nodes, n)]]

ViewOf(rows, v) == SelectSeq(rows, LAMBDA r : v \in Measured[r])
BuildAll(rows) == [v \in Views |-> Build(ViewOf(Ordered(rows), v))]

(***************************************************************************)
(* Incremental maintenance of a version: rows and the views of them.          *)
(***************************************************************************)
\* Mutant: only the nodes it generates itself take a row.
TouchedByOwn(view, added) == ToSet(view.made) \cap ToSet(Generated(added))
\* The old nodes that take samples from the added rows.
Touched(view, added) == {n \in ToSet(view.made) : \E r \in ToSet(added) : Covers(r, n)}

\* The old nodes whose parents a new node may change: an old sample generated
\* them and covers the new node.
Reparented(view, new) ==
    {c \in ToSet(view.made) : \E n \in new :
        /\ Below(n, c)
        /\ \E r \in ToSet(view.samples) : Covers(r, n) /\ Covers(r, c)
        /\ \A p \in view.parents[c] : Cardinality(n) >= Cardinality(p)}

\* An added row comes before samples that are there.
IsLate(view, added) == view.samples # <<>> /\ Before(added[1], Last(view.samples))

Extend(view, added) ==
    LET samples == Ordered(view.samples \o added)
        fresh == SelectSeq(Generated(added), LAMBDA n : ~Contains(view.made, n))
        new == ToSet(fresh)
        nodes == ToSet(view.made) \cup new
        touched == new \cup Touched(view, added)
        moved == new \cup Reparented(view, new)
        late == IsLate(view, added)
    IN  IF added = <<>> THEN view
        ELSE [samples |-> samples,
              made    |-> IF late THEN Generated(samples) ELSE view.made \o fresh,
              first   |-> [n \in nodes |-> IF late \/ n \in new THEN FirstCover(samples, n)
                                           ELSE view.first[n]],
              values  |-> [n \in nodes |-> IF n \in touched THEN Matching(samples, n)
                                           ELSE view.values[n]],
              parents |-> [n \in nodes |-> IF n \in moved THEN ImmediateParents(nodes, n)
                                           ELSE view.parents[n]]]

ExtendAll(version, rows) ==
    LET added == Ordered(SubSeq(rows, Len(version.rows) + 1, Len(rows)))
    IN  [rows |-> rows,
         views |-> [v \in Views |-> Extend(version.views[v], ViewOf(added, v))]]

\* The version was made of the first of these rows, but for the order in which a
\* heap held them.
HasPrefix(version, rows) ==
    /\ version # NoVersion
    /\ Len(version.rows) <= Len(rows)
    /\ LET current == SubSeq(rows, 1, Len(version.rows))
       IN  version.rows = current \/ Ordered(version.rows) = Ordered(current)

Maintain(kb, rows) ==
    LET old == HasPrefix(kb.maintenance, rows)
        ready == HasPrefix(kb.preparation, rows)
        previous == IF old /\ (~ready \/ Len(kb.preparation.rows) <= Len(kb.maintenance.rows))
                    THEN kb.maintenance ELSE kb.preparation
    IN  IF ~old /\ ~ready THEN [rows |-> rows, views |-> BuildAll(rows)]
        ELSE IF Len(previous.rows) = Len(rows) THEN previous
        ELSE ExtendAll(previous, rows)

(***************************************************************************)
(* LatticeTimeKB.                                                            *)
(***************************************************************************)
Empty == [observations |-> <<>>, pending |-> <<>>, last |-> 0, dirty |-> FALSE,
          maintenance |-> NoVersion, preparation |-> NoVersion, prepared |-> FALSE,
          views |-> BuildAll(<<>>)]

MergeHistorical(kb, rows) ==
    IF rows = <<>> THEN kb
    ELSE [kb EXCEPT !.observations = @ \o rows, !.dirty = TRUE, !.prepared = FALSE]

Observe(kb, r) == [kb EXCEPT !.pending = Append(@, r), !.prepared = FALSE]

EnsureNodes(kb) ==
    LET version == Maintain(kb, kb.observations)
    IN  IF ~kb.dirty THEN kb
        ELSE [kb EXCEPT !.maintenance = version, !.views = version.views, !.dirty = FALSE]

\* The pending rows, by when they ended and when they came.
EndsSooner(pending, i, j) ==
    end[pending[i]] < end[pending[j]] \/ (end[pending[i]] = end[pending[j]] /\ i < j)
ByEnd(pending) ==
    LET Pops(i, j) == EndsSooner(pending, i, j)
        at == SetToSortSeq(DOMAIN pending, Pops)
    IN  [k \in DOMAIN pending |-> pending[at[k]]]

\* The arrays in which heapq may hold them.
Heaps(pending) ==
    {[k \in DOMAIN pending |-> pending[at[k]]] :
        at \in {s \in SetToSeqs(DOMAIN pending) :
                  \A k \in 2..Len(s) : EndsSooner(pending, s[k \div 2], s[k])}}

Prepare(kb, heap) ==
    LET ensured == EnsureNodes(kb)
    IN  IF heap = <<>> \/ kb.prepared THEN ensured
        ELSE [ensured EXCEPT !.preparation = Maintain(ensured, ensured.observations \o heap),
                             !.prepared = TRUE]

Install(kb) ==
    [kb EXCEPT !.views = kb.preparation.views, !.dirty = FALSE, !.maintenance = kb.preparation,
               !.preparation = NoVersion, !.prepared = FALSE]

\* Rows that ended strictly before the query become visible.
Advance(kb, t) ==
    LET popped == SelectSeq(ByEnd(kb.pending), LAMBDA r : end[r] < t)
        left == SelectSeq(kb.pending, LAMBDA r : end[r] >= t)
        moved == [kb EXCEPT !.observations = @ \o popped, !.pending = left, !.last = t]
    IN  IF popped = <<>> THEN moved
        ELSE IF left = <<>> /\ kb.prepared THEN Install(moved)
        ELSE [moved EXCEPT !.dirty = TRUE]

Asked(kb, t) == EnsureNodes(Advance(kb, t))

(***************************************************************************)
(* The predictor.                                                            *)
(***************************************************************************)
Init ==
    /\ end = [r \in Rows |-> IF r \in Corpus THEN Min(Times) ELSE 0]
    /\ queue = <<>>
    /\ candidate = <<>>
    /\ live = Prepare(MergeHistorical(Empty, SetToSeq(Corpus)), <<>>)

\* A clause that ended at t is measured.
Complete(r, t) ==
    /\ end[r] = 0
    /\ end' = [end EXCEPT ![r] = t]
    /\ queue' = Append(queue, r)
    /\ UNCHANGED <<live, candidate>>

\* The writer builds a successor of the live KB outside its lock.
Fork ==
    /\ candidate = <<>> /\ queue # <<>>
    /\ LET kb == FoldLeft(Observe, live, queue)
       IN  \E heap \in Heaps(kb.pending) :
             candidate' = <<[taken |-> Len(queue), kb |-> Prepare(kb, heap)]>>
    /\ UNCHANGED <<end, queue, live>>

Publish ==
    /\ candidate # <<>>
    /\ live' = candidate[1].kb
    /\ queue' = SubSeq(queue, candidate[1].taken + 1, Len(queue))
    /\ candidate' = <<>>
    /\ UNCHANGED end

\* An observation or the preparation raises: the batch is kept.
Discard ==
    /\ candidate # <<>>
    /\ candidate' = <<>>
    /\ UNCHANGED <<end, queue, live>>

Query(t) ==
    /\ t >= live.last
    /\ live' = Asked(live, t)
    /\ UNCHANGED <<end, queue, candidate>>

\* The process ends and another loads the snapshot of this state.
Reload ==
    /\ LET loaded == MergeHistorical(Empty, Ordered(live.observations))
           kb == FoldLeft(Observe, loaded, ByEnd(live.pending))
       IN  \E heap \in Heaps(kb.pending) :
             live' = Prepare([kb EXCEPT !.last = live.last], heap)
    /\ queue' = <<>>
    /\ candidate' = <<>>
    /\ UNCHANGED end

Next ==
    \/ \E r \in Rows, t \in Times : Complete(r, t)
    \/ Fork \/ Publish \/ Discard \/ Reload
    \/ \E t \in Times : Query(t)

Spec == Init /\ [][Next]_vars

Published == ToSet(live.observations \o live.pending)

TypeOK ==
    /\ end \in [Rows -> Times \cup {0}]
    /\ \A r \in ToSet(queue) \cup Published : end[r] # 0
    /\ DOMAIN live.views = Views

\* Whatever was prepared, extended, discarded or reloaded on the way, the next
\* query is answered from what the batch builder makes of exactly the published
\* rows that ended before it (equals in some order).
AnswersAreExact ==
    \A t \in Times :
        LET seen == {r \in Published : r \in Corpus \/ end[r] < t}
            given == Asked(live, t)
        IN  t >= live.last =>
              \E rows \in SetToSeqs(seen) : rows = Ordered(rows) /\ given.views = BuildAll(rows)

=============================================================================
