------------------------------ MODULE ExecObserver ------------------------------
(***************************************************************************)
(* Which docker exec belongs to which tool call (monitoring/docker_exec.py).  *)
(* The before-hook, the events of the daemon with the watchers that wait for    *)
(* an exec's process, and the completion match calls and execs under a lock,    *)
(* and tell the resource monitor about a match after they have left it. What    *)
(* the command lines and start times make of several candidates is any choice.  *)
(***************************************************************************)
EXTENDS Naturals, Sequences, FiniteSets

CONSTANTS Calls, Execs,
          Box,          \* the container of each call and of each exec
          Tool,         \* the tool name of each call, with its runtime and owner
          MaxRecords    \* records that are kept

VARIABLES began,        \* calls whose before-hook was seen
          active,       \* _active
          matched,      \* _matched: the exec of a call
          records,      \* _records: execs whose process is known, oldest first
          consumed,     \* _consumed_exec_ids
          watching,     \* execs with events, whose watchers look for a process
          telling,      \* matches on their way to the monitor
          bound,        \* the matches that the monitor accepted
          inferred,     \* what the completions of a call were told
          seen,         \* calls with processes that were new in their cgroup
          strayed       \* history: calls whose completion took the record of another

vars == <<began, active, matched, records, consumed, watching, telling, bound, inferred, seen,
          strayed>>

None == "none"
\* An exec's identifier is neither of the marks that a call may have instead.
ObserverAssumption == {None, "diff"} \cap Execs = {}

Known == {records[n] : n \in DOMAIN records}

Init ==
    /\ began = {} /\ active = {} /\ consumed = {} /\ telling = {} /\ watching = {} /\ bound = {} /\ seen = {}
    /\ strayed = {}
    /\ matched = [c \in Calls |-> None]
    /\ records = <<>>
    /\ inferred = [c \in Calls |-> {}]

(* _match_record, _match_active_for_record: an exec that nobody has, in the       *)
(* call's container.                                                           *)
CandidatesAgain(c) == {x \in Known : Box[x] = Box[c]}
Candidates(c) == {x \in Known \ consumed : Box[x] = Box[c]}
Waiting(x) == {c \in active : matched[c] = None /\ Box[c] = Box[x]}

Take(c, x) ==
    /\ matched' = [matched EXCEPT ![c] = x]
    /\ consumed' = consumed \cup {x}
    /\ telling' = telling \cup {<<c, x>>}

(* begin_tool: a call that came with a scope of its own is not observed.          *)
Begin(c) ==
    /\ c \notin began
    /\ began' = began \cup {c}
    /\ \/ UNCHANGED <<active, matched, consumed, telling>>
       \/ /\ active' = active \cup {c}
          /\ \/ Candidates(c) = {} /\ UNCHANGED <<matched, consumed, telling>>
             \/ \E x \in Candidates(c) : Take(c, x)
    /\ UNCHANGED <<records, watching, bound, inferred, seen, strayed>>

(* _handle_event_line: the events of an exec may each start a watcher, which       *)
(* records the exec when it finds its process.                                  *)
Event(x) ==
    /\ x \notin watching
    /\ watching' = watching \cup {x}
    /\ UNCHANGED <<began, active, matched, records, consumed, telling, bound, inferred, seen,
                   strayed>>

(* record_exec_start: a second record of an exec is dropped while the first is     *)
(* kept; the oldest records make room, but what was consumed stays so.             *)
Newest(seq) == IF Len(seq) > MaxRecords THEN SubSeq(seq, 2, Len(seq)) ELSE seq
RecordStart(x) ==
    /\ x \in watching
    /\ IF x \in Known THEN UNCHANGED <<records, matched, consumed, telling>>
       ELSE /\ records' = Newest(Append(records, x))
            /\ IF x \in consumed \/ Waiting(x) = {}
               THEN UNCHANGED <<matched, consumed, telling>>
               ELSE \E c \in Waiting(x) : Take(c, x)
    /\ UNCHANGED <<began, active, watching, bound, inferred, seen, strayed>>

(* _notify_scope: outside the lock. The monitor refuses a call that it does not     *)
(* measure any more, and an execution that has been authenticated; the match is     *)
(* taken back then, the exec is not.                                             *)
Tell(c, x, accepted) ==
    /\ <<c, x>> \in telling
    /\ telling' = telling \ {<<c, x>>}
    /\ IF accepted THEN bound' = bound \cup {<<c, x>>} /\ UNCHANGED matched
       ELSE matched' = [matched EXCEPT ![c] = None] /\ UNCHANGED bound
    /\ UNCHANGED <<began, active, records, consumed, watching, inferred, seen, strayed>>

(* _poll_cgroup_once.                                                          *)
Appear(c) ==
    /\ c \in active /\ c \notin seen
    /\ seen' = seen \cup {c}
    /\ UNCHANGED <<began, active, matched, records, consumed, watching, telling, bound, inferred,
                   strayed>>

(* The record that a completion takes: that of its call or, when the call has none   *)
(* (any more), the only one of its tool (_pop_unique_by_tool_name). A completion that *)
(* failed is sent again; a call may not have been observed.                        *)
Alike(c) == {d \in active : Tool[d] = Tool[c]}
Popped(c) == IF c \in active THEN {c} ELSE {d \in Alike(c) : Cardinality(Alike(c)) = 1}

(* infer_scope: the answer is the match of that record, or an exec that is still     *)
(* free, or the processes that were new in the cgroup.                            *)
Infer(c) ==
    /\ c \in began
    /\ \E d \in Popped(c) :
          /\ active' = active \ {d}
          /\ matched' = [matched EXCEPT ![d] = None]
          /\ \/ /\ matched[d] # None
                /\ inferred' = [inferred EXCEPT ![c] = @ \cup {matched[d]}]
                /\ UNCHANGED consumed
             \/ /\ matched[d] = None
                /\ \E x \in Candidates(d) :
                      /\ inferred' = [inferred EXCEPT ![c] = @ \cup {x}]
                      /\ consumed' = consumed \cup {x}
             \/ /\ matched[d] = None /\ Candidates(d) = {}
                /\ inferred' = [inferred EXCEPT ![c] = @ \cup (IF d \in seen THEN {"diff"} ELSE {})]
                /\ UNCHANGED consumed
          /\ seen' = seen \ {d}
          /\ strayed' = strayed \cup ({c} \ {d})
    /\ UNCHANGED <<began, records, watching, telling, bound>>

Next ==
    \/ \E c \in Calls :
          \/ Begin(c) \/ Infer(c) \/ Appear(c)
          \/ \E x \in Execs, accepted \in BOOLEAN : Tell(c, x, accepted)
    \/ \E x \in Execs : Event(x) \/ RecordStart(x)

Spec == Init /\ [][Next]_vars

(***************************************************************************)
(* Properties.                                                               *)
(***************************************************************************)
Has(c, x) == <<c, x>> \in bound \cup telling \/ x \in inferred[c] \/ matched[c] = x

\* The process of one docker exec is measured for one call only, however its
\* events, its watchers, the hooks and the monitor's answers interleave, and
\* although its record may be dropped and made again; but a completion which finds
\* no record of its own call is told what another call of the tool has.
ExecIsOneCalls ==
    \A x \in Execs : \A c, d \in Calls \ strayed : Has(c, x) /\ Has(d, x) => c = d
=============================================================================
