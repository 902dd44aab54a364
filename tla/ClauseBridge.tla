---------------------------- MODULE ClauseBridge ----------------------------
(* bridge_command: which process ran which clause of the command, what the   *)
(* processes of a clause did, and whether the result may be trusted. The     *)
(* result is a function of what was recorded when the shell is gone; it is   *)
(* computed in three steps.                                                  *)
EXTENDS ExecImages, Functions, SequencesExt

CONSTANTS
    Shells,       \* the words that execute a shell
    Program       \* word -> its executable head

VARIABLES
    options,      \* clause -> the processes that may have run it
    valid         \* whether the call's profile is data_valid

ASSUME WordAssumption == Shells \subseteq Words /\ Program \in [Words -> STRING]

(***************************************************************************)
(* Runtime chains                                                            *)
(***************************************************************************)
(* The verified sh -c <command> is dropped when another image follows it.    *)
Chain(p) ==
    LET all == {x \in Images_ : Pid(x) = p}
    IN  IF p = Entry /\ Cardinality(all) > 1 THEN all \ {Min(all)} ELSE all

Chains == {p \in Pids : Chain(p) # {}}
FirstOf(p) == Min(Chain(p))
LastOf(p) == Max(Chain(p))

(* _alignment_evidence: the complete argument vector fits the clause's words. *)
Aligned(i, x) == ~log[x].cut /\ log[x].word \in command[i].argv

IsShell(p) ==
    /\ \A x \in Chain(p) : log[x].word \in Shells \cup {EntryImage}
    /\ ~\E i \in Clauses : Aligned(i, FirstOf(p))

Structural == {p \in Chains : IsShell(p)}

(* Chains with no other such chain among their ancestors below the entry.    *)
AncestorsOf(p) ==
    {Line(p)[k] : k \in {j \in 2..Len(Line(p)) : \A l \in 2..j : Line(p)[l] # Entry}}

TopLevel == {p \in Chains \ Structural : AncestorsOf(p) \cap (Chains \ Structural) = {}}

(***************************************************************************)
(* Assignment of clauses to chains                                           *)
(***************************************************************************)
Candidates == Chains \ Structural

NoOptions == <<>>
Align ==
    /\ call # NoCall /\ options = NoOptions
    /\ valid' = FALSE
    /\ LET candidates == Candidates
       IN  options' = [i \in Clauses |-> {p \in candidates : Aligned(i, FirstOf(p))}]
    /\ UNCHANGED <<vars, call>>

Options(i) == options[i]
Claimants(i) == {j \in Clauses : Options(j) \cap Options(i) # {}}

(* The pipelines of the and-or list that a clause is in, and its place there. *)
ListOf(i) ==
    LET first == CHOOSE j \in 1..i : /\ command[j].join \in {"first", ";"}
                                     /\ \A k \in (j+1)..i : command[k].join \notin {"first", ";"}
    IN  {j \in Clauses : j >= first /\ \A k \in (first+1)..j :
                             command[k].join \notin {"first", ";"}}

HasEdge(i) == \E j \in ListOf(i) : command[j].join \in {"&&", "||"}

(* What follows and precedes a clause in its list decides how its status is  *)
(* consumed; without a control operator only its own pipeline position does. *)
ExchangeIdentity(i) ==
    LET first == Min(ListOf(i))
        start == [command[first] EXCEPT !.join = ";"]
    IN  IF HasEdge(i)
        THEN << i - first, <<start>> \o [k \in 1..(Max(ListOf(i)) - first) |-> command[first + k]] >>
        ELSE << i - Min(PipelineOf(i)), << [command[i] EXCEPT !.join = ";"] >> >>

(* Only and-or lists, and the right of a pipe, are contexts of an exchange.  *)
ExchangeSupported(i) ==
    /\ ~command[Min(PipelineOf(i))].neg
    /\ PipelineOf(i) # {i} => i # Min(PipelineOf(i))

Unique(i) == Claimants(i) = {i} /\ Cardinality(Options(i)) = 1

PairsAnyTie(i) ==
    ~Unique(i) /\ Options(i) # {} /\ Cardinality(Claimants(i)) = Cardinality(Options(i))

Interchangeable(i) ==
    /\ ~Unique(i) /\ Options(i) # {}
    /\ Cardinality(Claimants(i)) = Cardinality(Options(i))
    /\ \A j \in Claimants(i) : ExchangeIdentity(j) = ExchangeIdentity(i) /\ ExchangeSupported(j)

Assigned == {i \in Clauses : Unique(i) \/ Interchangeable(i)}
Ambiguous == {i \in Clauses : Options(i) # {}} \ Assigned

(* The pairing of interchangeable clauses is by rank.                        *)
RootOf(i) ==
    CHOOSE p \in Options(i) :
        Cardinality({q \in Options(i) : q < p}) = Cardinality({j \in Claimants(i) : j < i})

MappedRoots == {RootOf(i) : i \in Assigned}

(***************************************************************************)
(* Clauses that executed nothing                                             *)
(***************************************************************************)
NeedsExec(i) == ~command[i].builtin
IsExact(i) == Cardinality(command[i].argv) = 1
Pending == {i \in Clauses \ (Assigned \cup Ambiguous) : NeedsExec(i)}

FailedAssigned ==
    {i \in Pending :
        /\ IsExact(i)
        /\ \A j \in Pending : command[j].argv = command[i].argv => j = i
        /\ \E n \in FailedAttempts : log[n].word \in command[i].argv}

(* The shell's "command not found" names one head, and the exit code of the  *)
(* call says how the failure was consumed.                                   *)
HeadOf(i) == Program[CHOOSE w \in command[i].argv : TRUE]
NotFound == {HeadOf(i) : i \in {j \in Clauses : \E p \in Root(j) :
                                    ExitOf(p) = {127} /\ proc[p].word = NoImage}}
Masked(h) ==
    \E i \in Clauses : /\ {j \in Clauses : HeadOf(j) = h} = {i}
                       /\ i + 1 \in PipelineOf(i)

LookupAssigned ==
    LET named(h) == {i \in Pending \ FailedAssigned : HeadOf(i) = h}
    IN  UNION {IF Cardinality(named(h)) = 1 THEN named(h) ELSE {} : h \in
                 {g \in NotFound : /\ Cardinality(NotFound) = 1
                                   /\ \/ ExitOf(Entry) = {127}
                                      \/ ExitOf(Entry) = {0} /\ Masked(g)}}

(***************************************************************************)
(* _resolve_control_short_circuits                                           *)
(***************************************************************************)
Unknown == 1000                  \* no status

Status(i) ==
    IF i \in Assigned /\ Unique(i) /\ NormalExit(LastOf(RootOf(i)))
    THEN log[End(LastOf(RootOf(i)))].status
    ELSE IF i \in LookupAssigned /\ ExitOf(Entry) = {127} THEN 127
    ELSE Unknown

Operand(f) == IF PipelineOf(f) = {f} /\ ~command[f].neg THEN Status(f) ELSE Unknown

Excluded == Ambiguous \cup FailedAssigned \cup LookupAssigned

ShortCircuits(f, s) ==
    \/ command[f].join = "&&" /\ s \notin {0, Unknown}
    \/ command[f].join = "||" /\ s = 0

(* The status of the list up to the pipeline that starts at f.               *)
ListStatus[f \in Clauses] ==
    IF command[f].join \in {"first", ";"} THEN Operand(f)
    ELSE LET before == ListStatus[Max({j \in 1..(f-1) : StartsPipeline(j)})]
         IN  IF ShortCircuits(f, before) THEN before ELSE Operand(f)

Skipped ==
    {f \in Clauses : /\ command[f].join \in {"&&", "||"}
                     /\ ShortCircuits(f, ListStatus[Max({j \in 1..(f-1) : StartsPipeline(j)})])}

Contradicted == {f \in Skipped : PipelineOf(f) \cap (Assigned \cup Excluded) # {}}
ShortCircuited == {i \in Clauses : NeedsExec(i) /\ \E f \in Skipped \ Contradicted : i \in PipelineOf(f)}

(***************************************************************************)
(* The result                                                                *)
(***************************************************************************)
(* _owned_pids: the descendants of the root up to the next mapped root.      *)
OwnedPids(i) ==
    {p \in Pids : Selected(p) /\ \E k \in DOMAIN Line(p) :
        /\ Line(p)[k] = RootOf(i)
        /\ \A j \in 1..(k-1) : Line(p)[j] \notin MappedRoots}

OwnedImages(i) == UNION {Chain(p) : p \in OwnedPids(i)}
Bridged == {i \in Assigned : \A x \in OwnedImages(i) : HasCausalEnd(x)}

Unmatched == Pending \ (FailedAssigned \cup LookupAssigned \cup ShortCircuited)

UnmatchedChains ==
    {p \in TopLevel : /\ \A i \in Assigned : p \notin OwnedPids(i)
                      /\ ~\E i \in Clauses : Aligned(i, FirstOf(p))}

IncompleteArgv ==
    LET anchors == {FirstOf(RootOf(i)) : i \in Assigned}
    IN  {x \in Images_ : log[x].cut} \ (UNION {OwnedImages(i) : i \in Bridged} \ anchors)

DataValid ==
    /\ Loss = 0
    /\ Ambiguous = {} /\ Unmatched = {} /\ Contradicted = {}
    /\ Assigned \subseteq Bridged
    /\ UnmatchedChains = {} /\ IncompleteArgv = {} /\ AttributionGaps = {}

(* _merge_disk_io: a clause's total is that of all its images, or unknown.   *)
ClauseIoKnown(i) == \A x \in OwnedImages(i) : IoKnown(x)
ClauseIo(i) == MapThenSumSet(IoTotal, OwnedImages(i))

BridgeInit == Init /\ call = NoCall /\ options = NoOptions /\ valid = FALSE

Judge == options # NoOptions /\ valid' = DataValid /\ UNCHANGED <<vars, call, options>>

BridgeNext ==
    \/ Next /\ UNCHANGED <<call, options, valid>>
    \/ Isolate /\ UNCHANGED <<options, valid>>
    \/ Align
    \/ Judge

BridgeSpec == BridgeInit /\ [][BridgeNext]_<<vars, call, options, valid>>

(***************************************************************************)
(* Properties                                                                *)
(***************************************************************************)
Executed(i) == \E p \in Root(i), n \in DOMAIN log : log[n].kind = "exec" /\ log[n].pid = p

(* A clause that did not run may have a double: some other process executed  *)
(* its words. Nothing but a proven skip gives the double away.               *)
HasDouble(i) ==
    \E n \in DOMAIN log : /\ log[n].kind = "exec" /\ log[n].word \in command[i].argv
                          /\ log[n].pid \notin Root(i)

Alike(i) == {j \in Clauses : ExchangeIdentity(j) = ExchangeIdentity(i)}

Members(i) == {p \in Pids : proc[p].clause = proc[RootOf(i)].clause}

MappingTrue ==
    /\ \A i \in Bridged :
          /\ RootOf(i) \in UNION {Root(j) : j \in Alike(i)}
          /\ OwnedPids(i) \cap Chains = Members(i) \cap Chains
    /\ \A i \in ShortCircuited : ~Ran(i)
    /\ \A p \in Candidates : \E i \in Bridged : p \in OwnedPids(i)

(* A command's profile that is called valid names, for every clause, exactly *)
(* the processes that the shell started for it and their descendants, unless *)
(* a clause that never executed anything has a double.                       *)
MappingIsTrue ==
    valid /\ (\A i \in Clauses : HasDouble(i) => Executed(i)) => MappingTrue

(* A clause's disk I/O, when the profile is valid and the total available,   *)
(* is what its processes read since they executed the clause.                *)
IoIsExact ==
    valid =>
        \A i \in Bridged : ClauseIoKnown(i) =>
            ClauseIo(i) = MapThenSumSet(LAMBDA p : proc[p].read, Members(i))
                              - log[FirstOf(RootOf(i))].read
=============================================================================
