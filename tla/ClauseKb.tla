-------------------------------- MODULE ClauseKb --------------------------------
(***************************************************************************)
(* The two prefix knowledge bases (runtime_kb.py): ToolKB, of whole calls, and   *)
(* TrieKB, of clauses.  Both hold samples under keys from the exact command down   *)
(* to a global node: a public layer, fitted once from every repository, and a     *)
(* layer per repository, that takes a completed row when a query is asked that    *)
(* started after the row ended.  The most specific level that has any sample      *)
(* answers.  TrieKB also composes the total of a compound command.              *)
(*                                                                         *)
(* A row stands for its samples.  Features, medians, quantiles and buckets are   *)
(* functions of the samples of the node; memory nodes are split by how memory   *)
(* was measured, commandless tools have one node each: neither is modelled.     *)
(***************************************************************************)
EXTENDS Naturals, SequencesExt, FiniteSetsExt

CONSTANTS
    Rows,       \* completed calls and clauses
    KindOf,     \* row -> what it is
    Trained,    \* those of the public corpus
    Argv,       \* row -> the words it was started with
    RepoOf,     \* row -> repository
    Stage,      \* row -> position in its pipeline, 0 for the first or only one
    Value,      \* row -> its duration
    Measured,   \* row -> targets it has a value for
    Targets,
    Wrappers,   \* env, nohup, timeout
    Consumers,  \* bins whose time is that of the stage before them
    Compound,   \* words of calls of several clauses
    Core,       \* words -> features that identify what runs
    Complete,   \* words whose parse is complete and more than the tool
    MaxDepth,   \* _MAX_PREFIX_DEPTH
    Commands,   \* queries: sequences of pipelines, a pipeline is a sequence of
                \* [argv, builtin]
    Repos, Ticks

VARIABLES
    kind,       \* of the knowledge base: "call" or "clause"
    ended,      \* row -> when, 0 before
    public,     \* <<target, key, row>> in the order of the corpus
    repo,       \* <<repository, target, key, row>> in the order of absorption
    pending,    \* the heap, in the order of arrival
    lastQuery,  \* _last_query_ts
    frozen

Kinds == {"call", "clause"}
vars == <<kind, ended, public, repo, pending, lastQuery, frozen>>

Mine == {r \in Rows : KindOf[r] = kind}

(***************************************************************************)
(* Keys.                                                                    *)
(***************************************************************************)
\* unwrap_argv, of a clause; a timeout has its duration behind it.
RECURSIVE Unwrapped(_)
Unwrapped(w) ==
    IF w = <<>> \/ Head(w) \notin Wrappers THEN w
    ELSE Unwrapped(SubSeq(w, IF Head(w) = "timeout" THEN 3 ELSE 2, Len(w)))

Normal(w) == IF kind = "call" \/ Unwrapped(w) = <<>> THEN w ELSE Unwrapped(w)

Depth(w) == Min({Len(w), MaxDepth})
Prefix(w, n) == SubSeq(w, 1, n)
Bin(w) == IF w \in Compound THEN <<>> ELSE << <<"bin", Prefix(w, 1)>> >>

\* The first word of a clause is its bin node.
Shortest == IF kind = "call" THEN 1 ELSE 2

RepoKeys(w) ==
    << <<"exact", w>> >>
    \o [i \in 1 .. Depth(w) + 1 - Shortest |-> <<"prefix", Prefix(w, Depth(w) + 1 - i)>>]
    \o Bin(w)

Semantic(w) == IF w \in Complete THEN << <<"semantic", Core[w]>> >> ELSE <<>>

PublicKeys(w) ==
    Semantic(w)
    \o Bin(w)
    \o (IF kind = "call" THEN << <<"tool", <<>> >> >> ELSE <<>>)
    \o << <<"global", <<>> >> >>

\* identity_prefix_lengths: prefixes that still identify what runs.  A prefix of a
\* compound call stands for calls that begin alike.
Lengths(w) ==
    IF w \in Compound THEN 1 .. Depth(w)
    ELSE {Len(w)} \cup {n \in 1 .. Depth(w) : Core[w] \subseteq Core[Prefix(w, n)]}

Allowed(key, w) ==
    /\ key[1] = "prefix" => Len(key[2]) \in Lengths(w)
    /\ key[1] = "bin" => 1 \in Lengths(w)

\* Where a query looks, first to last.
Levels(r, w) ==
    LET Fits(level) == Allowed(level.key, w)
    IN  SelectSeq([i \in DOMAIN RepoKeys(w) |-> [layer |-> r, key |-> RepoKeys(w)[i]]]
                  \o [i \in DOMAIN PublicKeys(w) |-> [layer |-> "public", key |-> PublicKeys(w)[i]]],
                  Fits)

(***************************************************************************)
(* Samples.                                                                 *)
(***************************************************************************)
DependentConsumer(w, stage) == stage > 0 /\ w[1] \in Consumers

\* What has no label of its own is no sample of TrieKB; a call always is.
Eligible(r) == kind = "call" \/ ~DependentConsumer(Normal(Argv[r]), Stage[r])
\* Missing metrics of a call are filled with zeros.
TargetsOf(r) == IF kind = "call" THEN Targets ELSE Measured[r]

SamplesUnder(r, keys) ==
    LET targets == SetToSeq(TargetsOf(r))
    IN  FlattenSeq([i \in DOMAIN targets |->
            [k \in DOMAIN keys |-> <<targets[i], keys[k], r>>]])

FitPublic(rows) ==
    LET fit == SelectSeq(rows, Eligible)
    IN  FlattenSeq([i \in DOMAIN fit |-> SamplesUnder(fit[i], PublicKeys(Normal(Argv[fit[i]])))])

Absorbed(r) ==
    LET samples == SamplesUnder(r, RepoKeys(Normal(Argv[r])))
    IN  [i \in DOMAIN samples |-> <<RepoOf[r]>> \o samples[i]]

Pops(i, j) == ended[pending[i]] < ended[pending[j]]
              \/ (ended[pending[i]] = ended[pending[j]] /\ i < j)
ByEnd == LET at == SetToSortSeq(DOMAIN pending, Pops)
         IN  [k \in DOMAIN pending |-> pending[at[k]]]

\* Mutant: a row that ended when the query starts has been seen.
BeforeOrAt(r, t) == ended[r] <= t
Before(r, t) == ended[r] < t

\* The repository layer as a query at t finds it.
RepoAt(t) ==
    LET Past(r) == Before(r, t)
        popped == SelectSeq(ByEnd, Past)
    IN  IF frozen THEN repo
        ELSE repo \o FlattenSeq([i \in DOMAIN popped |-> Absorbed(popped[i])])

Node(level, target, t) ==
    LET Here(s) == s[1] = target /\ s[2] = level.key
        OfRepo(s) == s[1] = level.layer /\ Here(Tail(s))
        samples == IF level.layer = "public" THEN SelectSeq(public, Here)
                   ELSE SelectSeq(RepoAt(t), OfRepo)
    IN  [i \in DOMAIN samples |-> Last(samples[i])]

\* _select: the first level that has samples, or none.
Select(r, w, target, t) ==
    LET levels == Levels(r, w)
        first == SelectInSeq(levels, LAMBDA level : Node(level, target, t) # <<>>)
    IN  IF first = 0 THEN <<>> ELSE Node(levels[first], target, t)

(***************************************************************************)
(* The total of a compound command.                                          *)
(***************************************************************************)
\* Twice the median.
Median2(samples) ==
    LET values == SortSeq([i \in DOMAIN samples |-> Value[samples[i]]], <)
        mid == Len(values) \div 2
    IN  IF Len(values) % 2 = 1 THEN 2 * values[mid + 1] ELSE values[mid] + values[mid + 1]

\* The parser's clauses: those of all pipelines, each with its position.
Clauses(command) ==
    FlattenSeq([p \in DOMAIN command |-> [i \in DOMAIN command[p] |->
        [argv |-> command[p][i].argv, builtin |-> command[p][i].builtin,
         piped |-> Len(command[p]) > 1, at |-> i - 1]]])
Executable(clauses) == SelectSeq(clauses, LAMBDA c : ~c.builtin)
Dependent(c) == c.piped /\ DependentConsumer(c.argv, c.at)

\* Mutant: any two piped clauses in a row belong to one pipeline.
JoinsPiped(c, previous) == c.piped /\ previous.piped
Joins(c, previous) == c.piped /\ previous.piped /\ c.at = previous.at + 1

Grouped(clauses) ==
    LET Add(groups, c) ==
            IF groups # <<>> /\ Joins(c, Last(Last(groups)))
            THEN Front(groups) \o << Append(Last(groups), c) >>
            ELSE Append(groups, <<c>>)
    IN  FoldLeft(Add, <<>>, clauses)

Own(group) == SelectSeq(group, LAMBDA c : ~Dependent(c))

Evidence(r, c, t) == Select(r, c.argv, "time", t)
Unpredicted(r, group, t) ==
    Own(group) = <<>> \/ \E c \in ToSet(Own(group)) : Evidence(r, c, t) = <<>>

\* Pipelines run one after another, the programs of one side by side.
Composed(r, groups, t) ==
    LET Unit(group) == Max({Median2(Evidence(r, c, t)) : c \in ToSet(Own(group))})
    IN  FoldLeft(LAMBDA sum, group : sum + Unit(group), 0, groups)

\* predict_command_latency_bucket: <<total>>, or <<>> when it is unavailable.
Total(r, command, t) ==
    LET groups == Grouped(Executable(Clauses(command)))
    IN  IF groups = <<>> \/ \E group \in ToSet(groups) : Unpredicted(r, group, t) THEN <<>>
        ELSE << Composed(r, groups, t) >>

(***************************************************************************)
(* The knowledge base.                                                       *)
(***************************************************************************)
Init ==
    /\ kind \in Kinds
    /\ ended = [r \in Rows |-> IF r \in Trained THEN 1 ELSE 0]
    /\ public = FitPublic(SetToSeq(Trained \cap Mine))
    /\ repo = <<>> /\ pending = <<>> /\ lastQuery = 0 /\ frozen = FALSE

\* observe_completed_call, observe_completed_clause.  A frozen one takes none.
Observe(r, t) ==
    /\ ended[r] = 0 /\ ~frozen
    /\ ended' = [ended EXCEPT ![r] = t]
    /\ pending' = IF Eligible(r) THEN Append(pending, r) ELSE pending
    /\ UNCHANGED <<kind, public, repo, lastQuery, frozen>>

\* _advance; a query of the past raises.
Query(t) ==
    /\ t >= lastQuery /\ ~frozen
    /\ repo' = RepoAt(t)
    /\ pending' = SelectSeq(pending, LAMBDA r : ~Before(r, t))
    /\ lastQuery' = t
    /\ UNCHANGED <<kind, ended, public, frozen>>

\* Mutant: a snapshot has the nodes only.
ReloadNodes == pending' = <<>> /\ UNCHANGED <<kind, ended, public, repo, lastQuery, frozen>>
\* to_json_obj, and from_json_obj in another process.
Reload ==
    /\ ~frozen
    /\ pending' = ByEnd
    /\ UNCHANGED <<kind, ended, public, repo, lastQuery, frozen>>

\* A finalized snapshot answers any time from now on.
Freeze ==
    /\ ~frozen /\ pending = <<>>
    /\ frozen' = TRUE /\ lastQuery' = 0
    /\ UNCHANGED <<kind, ended, public, repo, pending>>

Next ==
    \/ \E r \in Mine, t \in Ticks : Observe(r, t)
    \/ \E t \in Ticks : Query(t)
    \/ Reload \/ Freeze

Spec == Init /\ [][Next]_vars

TypeOK ==
    /\ ended \in [Rows -> Ticks \cup {0, 1}]
    /\ ToSet(pending) \subseteq {r \in Rows \ Trained : ended[r] # 0}
    /\ IsInjective(pending)

(***************************************************************************)
(* Properties.                                                              *)
(***************************************************************************)
Asked == {Normal(Argv[r]) : r \in Mine}

\* Rows that a query at t may use, of what was told by now.
Seen(r, t) == r \notin Trained /\ ended[r] # 0 /\ Eligible(r) /\ (frozen \/ ended[r] < t)
RowsAt(level, target, t) ==
    {r \in Mine : /\ target \in TargetsOf(r)
                  /\ IF level.layer = "public"
                     THEN r \in Trained /\ Eligible(r)
                          /\ level.key \in ToSet(PublicKeys(Normal(Argv[r])))
                     ELSE Seen(r, t) /\ RepoOf[r] = level.layer
                          /\ level.key \in ToSet(RepoKeys(Normal(Argv[r])))}

\* A query is answered from every row, once each, that ended before it in its
\* repository and shares the most specific key that any does, or from the corpus
\* when none does: however queries, completions, restarts and the end of training
\* were interleaved.
EvidenceIsExact ==
    \A t \in Ticks, r \in Repos, w \in Asked, target \in Targets :
        t >= lastQuery =>
            LET given == Select(r, w, target, t)
                levels == Levels(r, w)
                first == SelectInSeq(levels, LAMBDA level : RowsAt(level, target, t) # {})
            IN  /\ IsInjective(given)
                /\ ToSet(given) = IF first = 0 THEN {} ELSE RowsAt(levels[first], target, t)

\* No builtin between two programs of a pipeline.
Contiguous(pipeline) ==
    \A i \in DOMAIN pipeline : pipeline[i].builtin =>
        ~\E j, k \in DOMAIN pipeline : j < i /\ i < k /\ ~pipeline[j].builtin /\ ~pipeline[k].builtin

\* A composed total is the sum over the pipelines that run a program of the slowest
\* one that has a time of its own.
TotalIsTheCommands ==
    \A t \in Ticks, r \in Repos, command \in Commands :
        LET given == Total(r, command, t)
            Programs(p) == {i \in DOMAIN command[p] : ~command[p][i].builtin}
            Timed(p) == {i \in Programs(p) : i = 1 \/ command[p][i].argv[1] \notin Consumers}
            Slowest(p) == Max({Median2(Select(r, command[p][i].argv, "time", t)) : i \in Timed(p)})
            running == {p \in DOMAIN command : Programs(p) # {}}
        IN  kind = "clause" /\ t >= lastQuery /\ given # <<>>
              /\ (\A p \in DOMAIN command : Contiguous(command[p]))
            => given[1] = MapThenSumSet(Slowest, running)

AnswersAreExact == EvidenceIsExact /\ TotalIsTheCommands
=============================================================================
